---- MODULE Spec2Model ----
(***************************************************************************)
(* A model of the Asteroids game component (AsteroidsGame) and its helper  *)
(* module gameMath.                                                        *)
(*                                                                         *)
(* Units.  Times are in milliseconds (the source uses seconds: 1.5 s is    *)
(* 1500).  Positions are in tenths of a pixel, velocities in pixels per    *)
(* second and radii in pixels, so that  position += velocity * dt  is      *)
(* (velocity * dt) \div 100  and an overlap test compares tenths of pixels.*)
(* Angles are in milliradians (PI is 3142).  Cosines and sines are scaled  *)
(* by 1000.                                                                *)
(*                                                                         *)
(* React state.  gameState, score, lives and level are the component's     *)
(* state; the updates one handler queues are applied as one batch, so each *)
(* action leaves these variables at the value of the batch.  The animate   *)
(* loop and the key handler are re-registered only when gameState changes  *)
(* (their effects list [gameState]), so the loop that runs reads the       *)
(* gameState, score, lives and level of the render in which gameState last *)
(* changed: that snapshot is the variable  loop.                           *)
(*                                                                         *)
(* Particles are drawn and never read by the simulation: they are left out,*)
(* and so is createExplosion, which only makes particles.                  *)
(*                                                                         *)
(* Commentary.  The commentary requests (fetchAiCommentary and             *)
(* generateGameCommentary) read and write nothing of the simulation; they  *)
(* are followed on their own in AiSpec, and Spec leaves their variables as *)
(* they are after mounting.                                                *)
(***************************************************************************)
EXTENDS Integers, Sequences, FiniteSets, TLC

\* ------------------------------------------------------------ constants

SHIP_SIZE == 20
TURN_SPEED == 4189
THRUST_POWER == 300
BULLET_SPEED == 400
UFO_BULLET_SPEED == 200
BULLET_LIFE == 1500
FIRE_RATE == 200
POWERUP_DURATION == 10000
MISSILE_SPEED == 350
MISSILE_TURN_SPEED == 3000
UFO_SPEED == 100
UFO_SIZE == 20
UFO_SPAWN_RATE_MIN == 15000
UFO_SPAWN_RATE_MAX == 30000
UFO_FIRE_RATE == 1500
PI == 3142

\* ASTEROID_CONFIG: radius, score and speed per size class.
ASTEROID_CONFIG ==
  [large  |-> [radius |-> 40, score |-> 20,  speed |-> 50],
   medium |-> [radius |-> 25, score |-> 50,  speed |-> 80],
   small  |-> [radius |-> 15, score |-> 100, speed |-> 120]]

\* enum GameState
MENU == "MENU"
PLAYING == "PLAYING"
GAME_OVER == "GAME_OVER"
ENTER_INITIALS == "ENTER_INITIALS"
HIGH_SCORES == "HIGH_SCORES"
LEVEL_TRANSITION == "LEVEL_TRANSITION"

PowerUpType == {"MULTI_SHOT", "SHIELD", "TIME_SLOW", "MISSILE"}

\* --------------------------------------------------------------- bounds

\* The canvas (window.innerWidth x window.innerHeight), in pixels.
Width == 800
Height == 600
\* Frames of the animate loop one behaviour takes.
MaxFrames == 2
\* Commentary requests one behaviour issues.
MaxRequests == 3

\* ----------------------------------------------------------------- math

Abs(n) == IF n < 0 THEN 0 - n ELSE n
Min(a, b) == IF a < b THEN a ELSE b
Sign(n) == IF n > 0 THEN 1 ELSE IF n < 0 THEN 0 - 1 ELSE 0

\* sin on [0, PI], scaled by 1000 (Bhaskara's rational approximation).
SinArc(x) == (16 * x * (PI - x)) \div ((5 * PI * PI - 4 * x * (PI - x)) \div 1000)

Sin1000(a) ==
  LET r == a % (2 * PI)
  IN IF r <= PI THEN SinArc(r) ELSE 0 - SinArc(r - PI)

Cos1000(a) == Sin1000(a + PI \div 2)

\* atan on [0, 1], argument scaled by 1000, result in milliradians.
AtanUnit(z) == (z * (785 + (273 * (1000 - z)) \div 1000)) \div 1000

\* Math.atan2(y, x), in milliradians.
Atan2(y, x) ==
  LET ax == Abs(x)
      ay == Abs(y)
      base == IF ax = 0 /\ ay = 0 THEN 0
              ELSE IF ax >= ay THEN AtanUnit((ay * 1000) \div ax)
              ELSE PI \div 2 - AtanUnit((ax * 1000) \div ay)
  IN IF x >= 0 THEN (IF y >= 0 THEN base ELSE 0 - base)
     ELSE (IF y >= 0 THEN PI - base ELSE 0 - (PI - base))

Pt(x, y) == [x |-> x, y |-> y]

\* rotatePoint({x: r, y: 0}, angle), r in pixels, the result in tenths.
RotateX(r, angle) == Pt((r * Cos1000(angle)) \div 100, (r * Sin1000(angle)) \div 100)

\* normalizeAngle
RECURSIVE NormDown(_)
NormDown(a) == IF a > PI THEN NormDown(a - PI * 2) ELSE a
RECURSIVE NormUp(_)
NormUp(a) == IF a < 0 - PI THEN NormUp(a + PI * 2) ELSE a
normalizeAngle(angle) == NormUp(NormDown(angle))

\* checkCollision: distance(e1, e2) < e1.radius + e2.radius
checkCollision(p1, r1, p2, r2) ==
  LET dx == p1.x - p2.x
      dy == p1.y - p2.y
      rs == (r1 + r2) * 10
  IN dx * dx + dy * dy < rs * rs

\* wrapPosition(pos, width, height), width and height in pixels.
wrapPosition(pos, width, height) ==
  LET x1 == IF pos.x < 0 THEN width * 10 ELSE pos.x
      x2 == IF x1 > width * 10 THEN 0 ELSE x1
      y1 == IF pos.y < 0 THEN height * 10 ELSE pos.y
      y2 == IF y1 > height * 10 THEN 0 ELSE y1
  IN Pt(x2, y2)

\* position += velocity * dt
Move(pos, vel, dt) == Pt(pos.x + (vel.x * dt) \div 100, pos.y + (vel.y * dt) \div 100)

\* ------------------------------------------------------------- entities

\* A reference that may be null (shipRef, ufoRef) is a sequence of length 0 or 1.
Null == <<>>
Ref(e) == <<e>>

\* resetShip
NewShip(width, height) ==
  [position |-> Pt((width * 10) \div 2, (height * 10) \div 2),
   velocity |-> Pt(0, 0),
   angle |-> 0 - PI \div 2,
   radius |-> SHIP_SIZE,
   dead |-> FALSE,
   thrusting |-> FALSE,
   invulnerable |-> 3000,
   cooldown |-> 0,
   powerupMultiShotTimer |-> 0,
   powerupShieldTimer |-> 0,
   powerupTimeSlowTimer |-> 0,
   missileAmmo |-> 0]

\* spawnUfo
NewUfo(width, startLeft, y) ==
  [position |-> Pt(IF startLeft THEN 0 ELSE width * 10, y),
   velocity |-> Pt(IF startLeft THEN UFO_SPEED ELSE 0 - UFO_SPEED, 0),
   radius |-> UFO_SIZE,
   directionChangeTimer |-> 0,
   shootCooldown |-> 2000]

\* An asteroid of class size: the object literal of spawnAsteroids and of the split.
NewAsteroid(size, pos, angle, speed, rot) ==
  [position |-> pos,
   velocity |-> Pt((Cos1000(angle) * speed) \div 1000, (Sin1000(angle) * speed) \div 1000),
   angle |-> 0,
   rotationSpeed |-> rot,
   radius |-> ASTEROID_CONFIG[size].radius,
   dead |-> FALSE,
   size |-> size]

\* The bullet fireBullet(angleOffset) pushes.
ShipBullet(ship, angleOffset) ==
  LET fireAngle == ship.angle + angleOffset
      nose == RotateX(ship.radius, fireAngle)
  IN [position |-> Pt(ship.position.x + nose.x, ship.position.y + nose.y),
      velocity |-> Pt((Cos1000(fireAngle) * BULLET_SPEED) \div 1000,
                      (Sin1000(fireAngle) * BULLET_SPEED) \div 1000),
      radius |-> 2, dead |-> FALSE, life |-> BULLET_LIFE, owner |-> "ship"]

\* The bullet the UFO fires at the ship.
UfoBullet(ufo, ship, accuracyOffset) ==
  LET angleToShip == Atan2(ship.position.y - ufo.position.y, ship.position.x - ufo.position.x)
      a == angleToShip + accuracyOffset
  IN [position |-> ufo.position,
      velocity |-> Pt((Cos1000(a) * UFO_BULLET_SPEED) \div 1000,
                      (Sin1000(a) * UFO_BULLET_SPEED) \div 1000),
      radius |-> 3, dead |-> FALSE, life |-> BULLET_LIFE, owner |-> "ufo"]

\* The missile handleKeyDown pushes.
NewMissile(ship) ==
  LET nose == RotateX(ship.radius, ship.angle)
  IN [position |-> Pt(ship.position.x + nose.x, ship.position.y + nose.y),
      velocity |-> Pt((Cos1000(ship.angle) * MISSILE_SPEED) \div 1000,
                      (Sin1000(ship.angle) * MISSILE_SPEED) \div 1000),
      angle |-> ship.angle, radius |-> 5, dead |-> FALSE, life |-> 3000]

\* The power-up spawnPowerUp pushes.
NewPowerUp(pos, type, vel) ==
  [position |-> pos, velocity |-> vel, radius |-> 15, dead |-> FALSE,
   type |-> type, life |-> 15000]

Alive(seq) == SelectSeq(seq, LAMBDA e : ~e.dead)

\* ---------------------------------------------------------------- state

VARIABLES
  gameState,          \* useState: the phase
  score,              \* useState
  lives,              \* useState
  level,              \* useState
  highScores,         \* useState: the leaderboard, records [name, score]
  initials,           \* useState: the characters typed on the initials screen
  loop,               \* score, lives and level as the registered animate closure reads them
  ship,               \* shipRef.current, Null or Ref(ship)
  ufo,                \* ufoRef.current, Null or Ref(ufo)
  asteroids,          \* asteroidsRef.current
  bullets,            \* bulletsRef.current
  missiles,           \* missilesRef.current
  powerUps,           \* powerUpsRef.current
  keys,               \* keysRef.current: the codes held down
  sinceUfo,           \* Date.now() - lastUfoSpawnTimeRef.current, capped
  nextUfoSpawnDelay,  \* nextUfoSpawnDelayRef.current
  timers,             \* the pending setTimeout callbacks, soonest first
  frames,             \* animate calls so far
  ai,                 \* geminiService: whether the client exists (API_KEY was set)
  aiMessage,          \* useState: the commentary line
  isAiLoading,        \* useState
  requests,           \* the calls of fetchAiCommentary so far, in the order issued
  last                \* what the last action did: its name, the state it read, its events

vars == <<gameState, score, lives, level, highScores, initials, loop, ship, ufo,
          asteroids, bullets, missiles, powerUps, keys, sinceUfo,
          nextUfoSpawnDelay, timers, frames, ai, aiMessage, isAiLoading, requests, last>>

aiVars == <<ai, aiMessage, isAiLoading, requests>>

\* The phases in which animate updates the simulation.
UpdatePhases == {PLAYING, GAME_OVER, LEVEL_TRANSITION}

\* The mutable state a handler works on, as one record.  ev is the handler's event
\* log; dirty says that a state update is already queued in this handler; late
\* says that the setLives updater is left to the next render; used names the
\* random draws the handler has read; mid is the simulation as the collision
\* phase of animate found it (empty when the handler has no collision phase).
World ==
  [gameState |-> gameState, score |-> score, lives |-> lives, level |-> level,
   initials |-> initials, ship |-> ship, ufo |-> ufo, asteroids |-> asteroids,
   bullets |-> bullets, missiles |-> missiles, powerUps |-> powerUps,
   sinceUfo |-> sinceUfo, nextUfoSpawnDelay |-> nextUfoSpawnDelay,
   timers |-> timers, ev |-> <<>>, dirty |-> FALSE, late |-> FALSE, used |-> {},
   mid |-> <<>>]

\* The element of a set of one element: the steps of a handler are chained
\* through it, each step's result named once.
The(S) == CHOOSE x \in S : TRUE

Ev(t, k, n) == [t |-> t, k |-> k, n |-> n]
Log(w, t, k, n) == [w EXCEPT !.ev = Append(@, Ev(t, k, n))]
Count(evs, t) == Len(SelectSeq(evs, LAMBDA e : e.t = t))

\* setTimeout(callback, delay): the callback of the given kind, with the value its
\* closure holds.  timers is kept in the order the callbacks come due.
AddTimer(w, kind, delay, arg) ==
  LET k == Len(SelectSeq(w.timers, LAMBDA t : t.rem <= delay))
  IN [w EXCEPT !.timers = SubSeq(@, 1, k) \o <<[kind |-> kind, rem |-> delay, arg |-> arg]>>
                          \o SubSeq(@, k + 1, Len(@))]

\* The leaderboard loadHighScores seeds when nothing is stored.
DefaultScores ==
  <<[name |-> <<"A", "A", "A">>, score |-> 10000], [name |-> <<"B", "O", "B">>, score |-> 8000],
    [name |-> <<"H", "A", "L">>, score |-> 5000], [name |-> <<"C", "P", "U">>, score |-> 3000],
    [name |-> <<"N", "E", "O">>, score |-> 1000]>>

\* A leaderboard of ten entries, as an earlier session stored it.
FullBoard ==
  DefaultScores \o
  <<[name |-> <<"A", "B", "C">>, score |-> 900], [name |-> <<"A", "B", "C">>, score |-> 800],
    [name |-> <<"A", "B", "C">>, score |-> 700], [name |-> <<"A", "B", "C">>, score |-> 600],
    [name |-> <<"A", "B", "C">>, score |-> 500]>>

\* What localStorage.getItem gives for the leaderboard key: null when nothing
\* is stored, or the stored string: the empty string, the JSON text of a
\* board, or a string that is not JSON.
Absent == [kind |-> "absent", value |-> <<>>]
EmptyString == [kind |-> "empty", value |-> <<>>]
NotJson == [kind |-> "corrupted", value |-> <<>>]
Stringify(board) == [kind |-> "json", value |-> board]

\* loadHighScores: what it leaves in highScores and in the store, and whether
\* JSON.parse threw (setHighScores is then not reached: highScores keeps the
\* empty array of useState).
loadHighScores(stored) ==
  IF stored.kind \in {"absent", "empty"}
  THEN [threw |-> FALSE, highScores |-> DefaultScores, store |-> Stringify(DefaultScores)]
  ELSE IF stored.kind = "json"
  THEN [threw |-> FALSE, highScores |-> stored.value, store |-> stored]
  ELSE [threw |-> TRUE, highScores |-> <<>>, store |-> stored]

\* ------------------------------------------------------------- spawning

\* The positions (pixels) the placement loop of spawnAsteroids may draw.
SpawnCandidates == <<Pt(100, 100), Pt(Width \div 2, Height \div 2), Pt(Width \div 2, 100)>>

\* The condition of the do-while of spawnAsteroids: the draw is thrown away.
InExclusion(p, width, height) ==
  Abs(p.x * 2 - width) < 300 /\ Abs(p.y * 2 - height) < 300

\* The random draws of one asteroid of spawnAsteroids: position, heading, speed
\* (percent of the class speed) and spin.
SpawnDraws ==
  LET ok == SelectSeq(SpawnCandidates, LAMBDA p : ~InExclusion(p, Width, Height))
  IN [i \in 1..Len(ok) |->
        [pos |-> Pt(ok[i].x * 10, ok[i].y * 10),
         angle |-> (i - 1) * (PI \div 2),
         pct |-> IF i % 2 = 1 THEN 80 ELSE 120,
         rot |-> IF i % 2 = 1 THEN 2000 ELSE 0 - 2000]]

\* spawnAsteroids(count, levelMultiplier, width, height); draw picks the random
\* numbers: asteroid i takes the draw numbered draw + i.
RECURSIVE SpawnList(_, _)
SpawnList(n, draw) ==
  IF n <= 0 THEN <<>>
  ELSE LET d == SpawnDraws[((draw + n) % Len(SpawnDraws)) + 1]
       IN Append(SpawnList(n - 1, draw),
                 NewAsteroid("large", d.pos, d.angle,
                             (ASTEROID_CONFIG.large.speed * d.pct) \div 100, d.rot))

\* A field that does not grow with the level.
spawnAsteroidsIgnoringLevel(w, count, levelMultiplier, draw) ==
  [w EXCEPT !.asteroids = @ \o SpawnList(count, draw)]

spawnAsteroids(w, count, levelMultiplier, draw) ==
  [w EXCEPT !.asteroids = @ \o SpawnList(count + levelMultiplier, draw)]

\* ------------------------------------------------------------- handlers

resetShip(w) == [w EXCEPT !.ship = Ref(NewShip(Width, Height))]

\* A game start that leaves the score of the game before.
startGameKeepingScore(w) ==
  AddTimer(resetShip(
    [w EXCEPT !.lives = 3, !.level = 1,
              !.gameState = LEVEL_TRANSITION, !.initials = <<>>,
              !.asteroids = <<>>, !.bullets = <<>>, !.powerUps = <<>>,
              !.missiles = <<>>, !.ufo = Null, !.sinceUfo = 0]),
    "startGame", 2000, 0)

startGame(w) ==
  AddTimer(resetShip(
    [w EXCEPT !.score = 0, !.lives = 3, !.level = 1,
              !.gameState = LEVEL_TRANSITION, !.initials = <<>>,
              !.asteroids = <<>>, !.bullets = <<>>, !.powerUps = <<>>,
              !.missiles = <<>>, !.ufo = Null, !.sinceUfo = 0]),
    "startGame", 2000, 0)

\* startNextLevel; lv is the level the calling closure reads.
startNextLevel(w, lv) ==
  AddTimer(Log([w EXCEPT !.level = lv + 1, !.gameState = LEVEL_TRANSITION, !.dirty = TRUE],
               "startNextLevel", "", lv + 1),
           "nextLevel", 2000, lv + 1)

\* handleGameOver; sc is the score the calling closure reads.
handleGameOver(w, sc) ==
  AddTimer(Log([w EXCEPT !.gameState = GAME_OVER, !.dirty = TRUE], "handleGameOver", "", sc),
           "gameOver", 3000, sc)

\* ------------------------------------------------------- random draws

\* The random numbers one call of animate may draw, by the place that draws them:
\* spawn (spawnUfo and the next spawn delay), dir (the UFO's change of direction),
\* acc (the UFO's aim), drop (spawnPowerUp: nothing, or a type), kid (the two
\* children of a split: headings, speeds in percent of the class speed, spins).
\* eager is not a random number: it says whether React runs the setLives updater
\* inside the setLives call (the component has no update pending) or in the next
\* render.
SpawnDraw == {[startLeft |-> TRUE, y |-> Height * 2, delay |-> UFO_SPAWN_RATE_MIN],
              [startLeft |-> FALSE, y |-> Height * 8, delay |-> UFO_SPAWN_RATE_MAX]}
DirDraw == {[timer |-> 1000, vy |-> 0 - 40], [timer |-> 3000, vy |-> 40]}
AccDraw == {0 - 200, 200}
DropDraw == {"none", "SHIELD", "MISSILE"}
KidDraw == {[a1 |-> 0, a2 |-> PI, pct |-> 80, rot |-> 2000],
            [a1 |-> PI \div 2, a2 |-> 0 - PI \div 2, pct |-> 120, rot |-> 0 - 2000]}

DefaultRnd ==
  [spawn |-> [startLeft |-> TRUE, y |-> Height * 2, delay |-> UFO_SPAWN_RATE_MIN],
   dir |-> [timer |-> 1000, vy |-> 0 - 40], acc |-> 0 - 200, drop |-> "none",
   kid |-> [a1 |-> 0, a2 |-> PI, pct |-> 80, rot |-> 2000], eager |-> TRUE]

\* The draws that differ in a place the call reads (used), the others fixed.
RndFor(used) ==
  [spawn : IF "spawn" \in used THEN SpawnDraw ELSE {DefaultRnd.spawn},
   dir : IF "dir" \in used THEN DirDraw ELSE {DefaultRnd.dir},
   acc : IF "acc" \in used THEN AccDraw ELSE {DefaultRnd.acc},
   drop : IF "drop" \in used THEN DropDraw ELSE {DefaultRnd.drop},
   kid : IF "kid" \in used THEN KidDraw ELSE {DefaultRnd.kid},
   eager : IF "eager" \in used THEN BOOLEAN ELSE {DefaultRnd.eager}]

Use(w, what) == [w EXCEPT !.used = @ \cup {what}]

\* spawnPowerUp(position)
spawnPowerUp(w, pos, rnd) ==
  IF rnd.drop = "none" THEN Use(w, "drop")
  ELSE Use([w EXCEPT !.powerUps = Append(@, NewPowerUp(pos, rnd.drop, Pt(20, 0 - 20)))], "drop")

\* ------------------------------------------------------ animate: update

\* timer -= dt while it is positive
Dec(t, dt) == IF t > 0 THEN t - dt ELSE t

timeSlowActive(w) == w.ship # Null /\ w.ship[1].powerupTimeSlowTimer > 0

\* A time slow that slows nothing.
EnemyDtAtFullSpeed(slow, dt) == dt

EnemyDt(slow, dt) == IF slow THEN (dt * 3) \div 10 ELSE dt

Held(ks, codes) == ks \cap codes # {}

\* A gun that fires whenever its key is held.
CanFireWhenHeld(ks, cooldown) == Held(ks, {"Space", "ControlLeft"})

\* (keysRef.current['Space'] || keysRef.current['ControlLeft']) && ship.cooldown <= 0
CanFire(ks, cooldown) == Held(ks, {"Space", "ControlLeft"}) /\ cooldown <= 0

\* Ship Logic: timers, turn, thrust, shoot, move.
ShipLogic(w, ks, dt) ==
  LET s0 == w.ship[1]
      s1 == [s0 EXCEPT !.powerupMultiShotTimer = Dec(@, dt),
                       !.powerupShieldTimer = Dec(@, dt),
                       !.powerupTimeSlowTimer = Dec(@, dt)]
      turn == (TURN_SPEED * dt) \div 1000
      a1 == s1.angle - (IF Held(ks, {"ArrowLeft", "KeyA"}) THEN turn ELSE 0)
                     + (IF Held(ks, {"ArrowRight", "KeyD"}) THEN turn ELSE 0)
      thrust == Held(ks, {"ArrowUp", "KeyW"})
      v1 == IF thrust
            THEN Pt(s1.velocity.x + (Cos1000(a1) * THRUST_POWER * dt) \div 1000000,
                    s1.velocity.y + (Sin1000(a1) * THRUST_POWER * dt) \div 1000000)
            ELSE s1.velocity
      cd1 == Dec(s1.cooldown, dt)
      fire == CanFire(ks, cd1)
      s2 == [s1 EXCEPT !.angle = a1, !.thrusting = thrust, !.velocity = v1,
                       !.cooldown = IF fire THEN FIRE_RATE ELSE cd1]
      shots == IF ~fire THEN <<>>
               ELSE IF s2.powerupMultiShotTimer > 0
               THEN <<ShipBullet(s2, 0), ShipBullet(s2, 0 - 200), ShipBullet(s2, 200)>>
               ELSE <<ShipBullet(s2, 0)>>
      s3 == [s2 EXCEPT !.position = wrapPosition(Move(@, s2.velocity, dt), Width, Height),
                       !.invulnerable = Dec(@, dt)]
      w1 == [w EXCEPT !.ship = Ref(s3), !.bullets = @ \o shots]
  IN IF fire THEN Log(w1, "fire", "", Len(shots)) ELSE w1

\* A UFO that is never taken off the field.
UfoLogicNeverLeaving(w, eDt, rnd) ==
  IF w.ufo = Null
  THEN IF w.sinceUfo > w.nextUfoSpawnDelay
       THEN Use(Log([w EXCEPT !.ufo = Ref(NewUfo(Width, rnd.spawn.startLeft, rnd.spawn.y)),
                              !.sinceUfo = 0,
                              !.nextUfoSpawnDelay = rnd.spawn.delay],
                    "spawnUfo", "", 0), "spawn")
       ELSE w
  ELSE LET u0 == w.ufo[1]
           u1 == [u0 EXCEPT !.position = Move(@, u0.velocity, eDt),
                            !.directionChangeTimer = @ - eDt]
           change == u1.directionChangeTimer <= 0
           u2 == IF change
                 THEN [u1 EXCEPT !.directionChangeTimer = rnd.dir.timer,
                                 !.velocity = Pt(@.x, rnd.dir.vy)]
                 ELSE u1
           cd == u2.shootCooldown - eDt
           shoot == cd <= 0 /\ w.ship # Null /\ ~w.ship[1].dead
           u3 == [u2 EXCEPT !.shootCooldown = IF shoot THEN UFO_FIRE_RATE ELSE cd]
           w1 == [w EXCEPT !.ufo = Ref(u3),
                           !.bullets = IF shoot
                                       THEN Append(@, UfoBullet(u3, w.ship[1], rnd.acc))
                                       ELSE @]
           w3 == IF change THEN Use(w1, "dir") ELSE w1
       IN IF shoot THEN Use(Log(w3, "ufoFire", "", 0), "acc") ELSE w3

\* UFO Logic: spawn when the delay has passed, else move, turn, leave, shoot.
UfoLogic(w, eDt, rnd) ==
  IF w.ufo = Null
  THEN IF w.sinceUfo > w.nextUfoSpawnDelay
       THEN Use(Log([w EXCEPT !.ufo = Ref(NewUfo(Width, rnd.spawn.startLeft, rnd.spawn.y)),
                              !.sinceUfo = 0,
                              !.nextUfoSpawnDelay = rnd.spawn.delay],
                    "spawnUfo", "", 0), "spawn")
       ELSE w
  ELSE LET u0 == w.ufo[1]
           u1 == [u0 EXCEPT !.position = Move(@, u0.velocity, eDt),
                            !.directionChangeTimer = @ - eDt]
           change == u1.directionChangeTimer <= 0
           u2 == IF change
                 THEN [u1 EXCEPT !.directionChangeTimer = rnd.dir.timer,
                                 !.velocity = Pt(@.x, rnd.dir.vy)]
                 ELSE u1
           gone == \/ u2.velocity.x > 0 /\ u2.position.x > (Width + 50) * 10
                   \/ u2.velocity.x < 0 /\ u2.position.x < 0 - 500
           cd == u2.shootCooldown - eDt
           shoot == cd <= 0 /\ w.ship # Null /\ ~w.ship[1].dead
           u3 == [u2 EXCEPT !.shootCooldown = IF shoot THEN UFO_FIRE_RATE ELSE cd]
           w1 == [w EXCEPT !.ufo = IF gone THEN Null ELSE Ref(u3),
                           !.sinceUfo = IF gone THEN 0 ELSE @,
                           !.bullets = IF shoot
                                       THEN Append(@, UfoBullet(u3, w.ship[1], rnd.acc))
                                       ELSE @]
           w2 == IF gone THEN Log(w1, "ufoLeft", "", 0) ELSE w1
           w3 == IF change THEN Use(w2, "dir") ELSE w2
       IN IF shoot THEN Use(Log(w3, "ufoFire", "", 0), "acc") ELSE w3

\* Bullets Update
BulletStep(b, dt, eDt) ==
  LET bulletDt == IF b.owner = "ufo" THEN eDt ELSE dt
      life == b.life - bulletDt
  IN [b EXCEPT !.position = Move(@, b.velocity, bulletDt), !.life = life,
               !.dead = IF life <= 0 THEN TRUE ELSE @]

BulletsUpdate(w, dt, eDt) ==
  [w EXCEPT !.bullets = Alive([i \in 1..Len(w.bullets) |-> BulletStep(w.bullets[i], dt, eDt)])]

\* Missiles Update: home on the UFO, move, age.
MissileStep(m, target, dt) ==
  LET h == IF target = Null THEN m
           ELSE LET t == target[1]
                    angleToTarget == Atan2(t.position.y - m.position.y,
                                           t.position.x - m.position.x)
                    currentAngle == Atan2(m.velocity.y, m.velocity.x)
                    diff == normalizeAngle(angleToTarget - currentAngle)
                    turn == Min(Abs(diff), (MISSILE_TURN_SPEED * dt) \div 1000) * Sign(diff)
                    newAngle == currentAngle + turn
                IN [m EXCEPT !.velocity = Pt((Cos1000(newAngle) * MISSILE_SPEED) \div 1000,
                                             (Sin1000(newAngle) * MISSILE_SPEED) \div 1000),
                             !.angle = newAngle]
      life == h.life - dt
  IN [h EXCEPT !.position = Move(@, h.velocity, dt), !.life = life,
               !.dead = IF life <= 0 THEN TRUE ELSE @]

MissilesUpdate(w, dt) ==
  [w EXCEPT !.missiles = Alive([i \in 1..Len(w.missiles) |-> MissileStep(w.missiles[i], w.ufo, dt)])]

\* An asteroid that moves and is not wrapped.
AsteroidStepUnwrapped(a, eDt) ==
  [a EXCEPT !.position = Move(@, a.velocity, eDt),
            !.angle = @ + (a.rotationSpeed * eDt) \div 1000]

\* Asteroids Update
AsteroidStep(a, eDt) ==
  [a EXCEPT !.position = wrapPosition(Move(@, a.velocity, eDt), Width, Height),
            !.angle = @ + (a.rotationSpeed * eDt) \div 1000]

AsteroidsUpdate(w, eDt) ==
  [w EXCEPT !.asteroids = [i \in 1..Len(w.asteroids) |-> AsteroidStep(w.asteroids[i], eDt)]]

\* PowerUps Update
PowerUpStep(p, dt) ==
  LET life == p.life - dt
  IN [p EXCEPT !.position = wrapPosition(Move(@, p.velocity, dt), Width, Height),
               !.life = life, !.dead = IF life <= 0 THEN TRUE ELSE @]

\* The update without the purge of the power-ups marked dead.
PowerUpsUpdateUnpurged(w, dt) ==
  [w EXCEPT !.powerUps = [i \in 1..Len(w.powerUps) |-> PowerUpStep(w.powerUps[i], dt)]]

PowerUpsUpdate(w, dt) ==
  [w EXCEPT !.powerUps = Alive([i \in 1..Len(w.powerUps) |-> PowerUpStep(w.powerUps[i], dt)])]

\* 1. UPDATE LOGIC, up to the collisions; st is the phase the closure reads.
Update(w, st, ks, dt, rnd) ==
  LET eDt == EnemyDt(timeSlowActive(w), dt)
      w1 == IF st = PLAYING /\ w.ship # Null /\ ~w.ship[1].dead THEN ShipLogic(w, ks, dt) ELSE w
      w2 == IF st = PLAYING THEN UfoLogic(w1, eDt, rnd) ELSE w1
  IN PowerUpsUpdate(AsteroidsUpdate(MissilesUpdate(BulletsUpdate(w2, dt, eDt), dt), eDt), dt)

\* -------------------------------------------------- animate: collisions

\* 1. Ship Picking up PowerUps: the effect of one power-up.
ApplyPowerUp(s, type) ==
  CASE type = "MULTI_SHOT" -> [s EXCEPT !.powerupMultiShotTimer = POWERUP_DURATION]
    [] type = "SHIELD" -> [s EXCEPT !.powerupShieldTimer = POWERUP_DURATION]
    [] type = "TIME_SLOW" -> [s EXCEPT !.powerupTimeSlowTimer = POWERUP_DURATION]
    [] type = "MISSILE" -> [s EXCEPT !.missileAmmo = @ + 1]

RECURSIVE Pickups(_, _)
Pickups(w, i) ==
  IF i > Len(w.powerUps) THEN w
  ELSE LET p == w.powerUps[i]
           s == w.ship[1]
       IN IF checkCollision(s.position, (s.radius * 3) \div 2, p.position, p.radius)
          THEN Pickups(Log([w EXCEPT !.powerUps[i].dead = TRUE,
                                     !.ship = Ref(ApplyPowerUp(s, p.type)),
                                     !.dirty = TRUE],
                           "pickup", p.type, i), i + 1)
          ELSE Pickups(w, i + 1)

\* The first asteroid, in array order, that is not dead and overlaps e; 0 if none.
FirstHit(w, e) ==
  LET hit == {j \in 1..Len(w.asteroids) :
                /\ ~w.asteroids[j].dead
                /\ checkCollision(e.position, e.radius,
                                  w.asteroids[j].position, w.asteroids[j].radius)}
  IN IF hit = {} THEN 0 ELSE CHOOSE j \in hit : \A k \in hit : j <= k

\* The scores of the large and the small class exchanged.
BulletScoreSwapped(size) == IF size = "large" THEN 100 ELSE IF size = "medium" THEN 50 ELSE 20

\* The score of an asteroid a bullet destroys.
BulletScore(size) == IF size = "large" THEN 20 ELSE IF size = "medium" THEN 50 ELSE 100

\* A split that pushes one child only.
OneChild(a, rnd) ==
  IF a.size # "small"
  THEN <<NewAsteroid(IF a.size = "large" THEN "medium" ELSE "small", a.position,
                     rnd.kid.a1, ASTEROID_CONFIG.small.speed, rnd.kid.rot)>>
  ELSE <<>>

\* The asteroids pushed when a bullet destroys asteroid a.
Children(a, rnd) ==
  IF a.size # "small"
  THEN LET nextSize == IF a.size = "large" THEN "medium" ELSE "small"
           speed == (ASTEROID_CONFIG[nextSize].speed * rnd.kid.pct) \div 100
       IN <<NewAsteroid(nextSize, a.position, rnd.kid.a1, speed, rnd.kid.rot),
            NewAsteroid(nextSize, a.position, rnd.kid.a2, speed, rnd.kid.rot)>>
  ELSE <<>>

\* A ship bullet against the asteroids.
BulletVsAsteroids(w, i, rnd) ==
  LET j == FirstHit(w, w.bullets[i])
  IN IF j = 0 THEN w
     ELSE LET a == w.asteroids[j]
              kids == Children(a, rnd)
              w1 == spawnPowerUp([w EXCEPT !.bullets[i].dead = TRUE,
                                           !.asteroids[j].dead = TRUE], a.position, rnd)
              w2 == [w1 EXCEPT !.score = @ + BulletScore(a.size), !.dirty = TRUE,
                               !.asteroids = @ \o kids]
              w3 == Log(w2, "bulletHitAsteroid", a.size, Len(kids))
          IN IF kids = <<>> THEN w3 ELSE Use(w3, "kid")

\* A ship bullet against the UFO, the bullet's dead flag not looked at.
BulletVsUfoThoughDead(w, i, rnd) ==
  IF /\ w.ufo # Null
     /\ checkCollision(w.bullets[i].position, w.bullets[i].radius,
                       w.ufo[1].position, w.ufo[1].radius)
  THEN LET w1 == spawnPowerUp([w EXCEPT !.bullets[i].dead = TRUE], w.ufo[1].position, rnd)
       IN Log([w1 EXCEPT !.ufo = Null, !.sinceUfo = 0, !.score = @ + 500, !.dirty = TRUE],
              "bulletHitUfo", "", 500)
  ELSE w

\* A ship bullet against the UFO, the UFO left in its slot.
BulletVsUfoLeavingIt(w, i, rnd) ==
  IF /\ w.ufo # Null
     /\ ~w.bullets[i].dead
     /\ checkCollision(w.bullets[i].position, w.bullets[i].radius,
                       w.ufo[1].position, w.ufo[1].radius)
  THEN Log([w EXCEPT !.bullets[i].dead = TRUE, !.sinceUfo = 0, !.score = @ + 500,
                     !.dirty = TRUE],
           "bulletHitUfo", "", 500)
  ELSE w

\* A ship bullet against the UFO.
BulletVsUfo(w, i, rnd) ==
  IF /\ w.ufo # Null
     /\ ~w.bullets[i].dead
     /\ checkCollision(w.bullets[i].position, w.bullets[i].radius,
                       w.ufo[1].position, w.ufo[1].radius)
  THEN LET w1 == spawnPowerUp([w EXCEPT !.bullets[i].dead = TRUE], w.ufo[1].position, rnd)
       IN Log([w1 EXCEPT !.ufo = Null, !.sinceUfo = 0, !.score = @ + 500, !.dirty = TRUE],
              "bulletHitUfo", "", 500)
  ELSE w

\* An updater that schedules the respawn whatever the lives left.
AfterLifeRespawning(w, lp) ==
  Log(AddTimer(IF w.lives <= 0 THEN handleGameOver(w, lp.score) ELSE w,
               "respawn", 2000, lp.lives),
      "respawnTimer", "", lp.lives)

\* The updater every death passes to setLives, after it has taken the life:
\* handleGameOver, or the timer of the respawn.  lp is the closure's snapshot.
AfterLife(w, lp) ==
  IF w.lives <= 0 THEN handleGameOver(w, lp.score)
  ELSE Log(AddTimer(w, "respawn", 2000, lp.lives), "respawnTimer", "", lp.lives)

\* setLives(l => ...).  React runs the updater inside the call when the component
\* has no update pending, and in the next render otherwise: then what the
\* updater does comes after everything else this call of animate does.
LoseLife(w, lp, rnd) ==
  LET w1 == [w EXCEPT !.lives = @ - 1, !.dirty = TRUE]
  IN IF w.dirty THEN [w1 EXCEPT !.late = TRUE]
     ELSE IF rnd.eager THEN Use(AfterLife(w1, lp), "eager")
     ELSE Use([w1 EXCEPT !.late = TRUE], "eager")

\* The ship is marked dead.
KillShip(w, lp, rnd, cause) ==
  LoseLife(Log([w EXCEPT !.ship[1].dead = TRUE], "death", cause, w.lives - 1), lp, rnd)

\* The guard without the test of the dead flag, and without the test of the
\* invulnerability.
ShipExposedThoughDead(w) == w.ship # Null /\ w.ship[1].invulnerable <= 0
ShipExposedThoughInvulnerable(w) == w.ship # Null /\ ~w.ship[1].dead

\* A shield that never protects.
NeverShielded(s) == FALSE

\* The guard of every collision against the ship.
ShipExposed(w) == w.ship # Null /\ ~w.ship[1].dead /\ w.ship[1].invulnerable <= 0

Shielded(s) == s.powerupShieldTimer > 0

\* A shield that lets the bullet through.
UfoBulletThroughShield(w, i, lp, rnd) ==
  LET b == w.bullets[i]
      s == w.ship[1]
  IN IF Shielded(s) THEN w
     ELSE IF checkCollision(b.position, b.radius, s.position, (s.radius * 7) \div 10)
          THEN KillShip([w EXCEPT !.bullets[i].dead = TRUE], lp, rnd, "ufoBullet")
          ELSE w

\* UFO Bullets hitting Ship
UfoBulletVsShip(w, i, lp, rnd) ==
  LET b == w.bullets[i]
      s == w.ship[1]
  IN IF Shielded(s)
     THEN IF checkCollision(b.position, b.radius, s.position, s.radius * 2)
          THEN Log([w EXCEPT !.bullets[i].dead = TRUE], "shieldHit", "", i)
          ELSE w
     ELSE IF checkCollision(b.position, b.radius, s.position, (s.radius * 7) \div 10)
          THEN KillShip([w EXCEPT !.bullets[i].dead = TRUE], lp, rnd, "ufoBullet")
          ELSE w

\* 2. Bullets: the loop over bulletsRef.current.
RECURSIVE BulletsLoop(_, _, _, _)
BulletsLoop(w, i, lp, rnd) ==
  IF i > Len(w.bullets) THEN w
  ELSE LET b == w.bullets[i]
           w1 == IF b.owner = "ship"
                 THEN BulletVsUfo(BulletVsAsteroids(w, i, rnd), i, rnd)
                 ELSE w
           w2 == IF b.owner = "ufo" /\ ShipExposed(w1)
                 THEN UfoBulletVsShip(w1, i, lp, rnd)
                 ELSE w1
       IN IF b.dead THEN BulletsLoop(w, i + 1, lp, rnd) ELSE BulletsLoop(w2, i + 1, lp, rnd)

\* A missile that splits the asteroid it hits as a bullet does.
MissileHitSplitting(w, i, rnd) ==
  LET j == FirstHit(w, w.missiles[i])
  IN IF j = 0 THEN w
     ELSE Log([w EXCEPT !.missiles[i].dead = TRUE, !.asteroids[j].dead = TRUE,
                        !.score = @ + 50, !.dirty = TRUE,
                        !.asteroids = @ \o Children(w.asteroids[j], rnd)],
              "missileHitAsteroid", w.asteroids[j].size, 50)

\* 3. Missiles Collision: the loop over missilesRef.current.
MissileHit(w, i, rnd) ==
  LET m == w.missiles[i]
  IN IF w.ufo # Null /\ checkCollision(m.position, m.radius, w.ufo[1].position, w.ufo[1].radius)
     THEN LET w1 == spawnPowerUp([w EXCEPT !.missiles[i].dead = TRUE], w.ufo[1].position, rnd)
          IN Log([w1 EXCEPT !.ufo = Null, !.sinceUfo = 0, !.score = @ + 500, !.dirty = TRUE],
                 "missileHitUfo", "", 500)
     ELSE LET j == FirstHit(w, m)
          IN IF j = 0 THEN w
             ELSE Log([w EXCEPT !.missiles[i].dead = TRUE, !.asteroids[j].dead = TRUE,
                                !.score = @ + 50, !.dirty = TRUE],
                      "missileHitAsteroid", w.asteroids[j].size, 50)

RECURSIVE MissilesLoop(_, _, _)
MissilesLoop(w, i, rnd) ==
  IF i > Len(w.missiles) THEN w
  ELSE IF w.missiles[i].dead THEN MissilesLoop(w, i + 1, rnd)
  ELSE MissilesLoop(MissileHit(w, i, rnd), i + 1, rnd)

\* checkDeath(obj)
checkDeath(s, obj) ==
  IF Shielded(s) THEN FALSE
  ELSE checkCollision(s.position, (s.radius * 7) \div 10, obj.position, obj.radius)

\* 4. Ship vs Bodies
ShipVsAsteroids(w, lp, rnd) ==
  LET hit == {j \in 1..Len(w.asteroids) : checkDeath(w.ship[1], w.asteroids[j])}
  IN IF hit = {} THEN w ELSE KillShip(w, lp, rnd, "asteroid")

ShipVsUfo(w, lp, rnd) ==
  IF w.ufo # Null /\ ~w.ship[1].dead /\ checkDeath(w.ship[1], w.ufo[1])
  THEN KillShip(Log([w EXCEPT !.ufo = Null, !.sinceUfo = 0], "shipHitUfo", "", 0),
                lp, rnd, "ufo")
  ELSE w

ShipVsBodies(w, lp, rnd) ==
  IF ShipExposed(w) THEN ShipVsUfo(ShipVsAsteroids(w, lp, rnd), lp, rnd) ELSE w

\* The collisions of one call, in the order of the source.
Collisions(w, lp, rnd) ==
  LET w1 == IF w.ship # Null /\ ~w.ship[1].dead THEN Pickups(w, 1) ELSE w
      w2 == BulletsLoop(w1, 1, lp, rnd)
      w3 == [w2 EXCEPT !.asteroids = Alive(@)]
  IN ShipVsBodies(MissilesLoop(w3, 1, rnd), lp, rnd)

\* A level clear that does not look at the phase.
LevelClearInAnyPhase(w, st, lp) ==
  IF Len(w.asteroids) = 0 /\ w.ufo = Null THEN startNextLevel(w, lp.level) ELSE w

\* Level Clear
LevelClear(w, st, lp) ==
  IF Len(w.asteroids) = 0 /\ w.ufo = Null /\ st = PLAYING
  THEN startNextLevel(w, lp.level)
  ELSE w

\* The world with mid set to the simulation as it is now.
AtCollisions(w) ==
  [w EXCEPT !.mid = <<[ship |-> w.ship, ufo |-> w.ufo, asteroids |-> w.asteroids,
                       bullets |-> w.bullets, missiles |-> w.missiles,
                       powerUps |-> w.powerUps]>>]

\* Collisions resolved in every phase in which the simulation is updated.
ResolvesCollisionsInAnyPhase(st) == TRUE

\* The phase in which animate resolves collisions.
ResolvesCollisions(st) == st = PLAYING

\* animate(time), the simulation part.  st is the phase and lp the score, lives
\* and level the closure reads; ks the keys held; dt the clamped time step.
animate(w, st, lp, ks, dt, rnd) ==
  The({IF w3.late THEN AfterLife(w3, lp) ELSE w3 :
         w3 \in {LevelClear(w2, st, lp) :
           w2 \in {IF ResolvesCollisions(st)
                  THEN Collisions(AtCollisions(w1), lp, rnd)
                  ELSE w1 :
             w1 \in {Update(w, st, ks, dt, rnd)}}}})

\* -------------------------------------------------------------- actions

\* The state after a handler: the batch of its state updates applied, and the
\* animate loop and the key handler registered again if gameState changed.
Commit(w, act) ==
  /\ gameState' = w.gameState
  /\ score' = w.score
  /\ lives' = w.lives
  /\ level' = w.level
  /\ initials' = w.initials
  /\ ship' = w.ship
  /\ ufo' = w.ufo
  /\ asteroids' = w.asteroids
  /\ bullets' = w.bullets
  /\ missiles' = w.missiles
  /\ powerUps' = w.powerUps
  /\ sinceUfo' = w.sinceUfo
  /\ nextUfoSpawnDelay' = w.nextUfoSpawnDelay
  /\ timers' = w.timers
  /\ loop' = IF w.gameState # gameState
             THEN [score |-> w.score, lives |-> w.lives, level |-> w.level]
             ELSE loop
  /\ last' = [act |-> act, gameState |-> gameState, score |-> score, lives |-> lives,
              level |-> level, ev |-> w.ev, mid |-> w.mid]
  /\ UNCHANGED aiVars

\* The key codes pressed and released.
KeyCodes == {"Space", "KeyM"}

\* The key codes animate reads from keysRef; the entry of any other code is written
\* by the key handlers and never read.
ReadCodes == {"ArrowLeft", "KeyA", "ArrowRight", "KeyD", "ArrowUp", "KeyW", "Space",
              "ControlLeft"}

\* A launcher that never runs out.
HasAmmoAlways(s) == TRUE

\* ship.missileAmmo > 0
HasAmmo(s) == s.missileAmmo > 0

\* Space starting a game in whatever phase the handler runs.
StartIntentInAnyPhase(code, phase) == code = "Space"

\* e.code === 'Space' && gameState === GameState.MENU
StartIntent(code, phase) == code = "Space" /\ phase = MENU

\* handleKeyDown.  keys holds the pressed codes among ReadCodes.  While the loop runs,
\* key events are followed as long as a frame is left to read them.
KeyDown(code) ==
  /\ gameState # ENTER_INITIALS
  /\ (gameState \in UpdatePhases => frames < MaxFrames)
  /\ keys' = keys \cup ({code} \cap ReadCodes)
  /\ LET w0 == Log(World, "keyDown", code, 0)
         w1 == IF StartIntent(code, gameState) THEN startGame(w0) ELSE w0
         s == w1.ship[1]
         w2 == IF /\ code \in {"KeyM", "ShiftLeft", "ShiftRight"}
                  /\ gameState = PLAYING
                  /\ w1.ship # Null
                  /\ ~s.dead
                  /\ HasAmmo(s)
               THEN Log([w1 EXCEPT !.ship[1].missileAmmo = @ - 1,
                                   !.missiles = Append(@, NewMissile(s))],
                        "fireMissile", "", s.missileAmmo - 1)
               ELSE w1
     IN Commit(w2, "handleKeyDown")
  /\ UNCHANGED <<highScores, frames>>

\* handleKeyUp
KeyUp(code) ==
  /\ code \in keys
  /\ (gameState \in UpdatePhases => frames < MaxFrames)
  /\ keys' = keys \ {code}
  /\ Commit(World, "handleKeyUp")
  /\ UNCHANGED <<highScores, frames>>

\* The START GAME button of the menu and the NEW GAME button of the leaderboard.
ClickStart ==
  /\ gameState \in {MENU, HIGH_SCORES}
  /\ Commit(startGame(World), "startGame")
  /\ UNCHANGED <<highScores, keys, frames>>

\* The HIGH SCORES button of the menu.
ClickHighScores ==
  /\ gameState = MENU
  /\ Commit([World EXCEPT !.gameState = HIGH_SCORES], "showHighScores")
  /\ UNCHANGED <<highScores, keys, frames>>

\* The MAIN MENU button of the leaderboard.
ClickMainMenu ==
  /\ gameState = HIGH_SCORES
  /\ Commit([World EXCEPT !.gameState = MENU], "mainMenu")
  /\ UNCHANGED <<highScores, keys, frames>>

\* Time passes: Date.now() advances and the pending timers come closer.  A timer
\* that is due runs before more time passes.
TickSteps == {1000, UFO_SPAWN_RATE_MAX}

Tick(d) ==
  /\ IF timers = <<>>
     THEN d >= UFO_SPAWN_RATE_MAX /\ sinceUfo <= UFO_SPAWN_RATE_MAX
     ELSE d < UFO_SPAWN_RATE_MAX /\ timers[1].rem > 0
  /\ timers' = [i \in 1..Len(timers) |->
                  [timers[i] EXCEPT !.rem = IF @ > d THEN @ - d ELSE 0]]
  /\ sinceUfo' = Min(sinceUfo + d, UFO_SPAWN_RATE_MAX + 1)
  /\ last' = [act |-> "tick", gameState |-> gameState, score |-> score, lives |-> lives,
              level |-> level, ev |-> <<>>, mid |-> <<>>]
  /\ UNCHANGED <<gameState, score, lives, level, highScores, initials, loop, ship, ufo,
                 asteroids, bullets, missiles, powerUps, keys, nextUfoSpawnDelay, frames>>
  /\ UNCHANGED aiVars

\* The callback of the timer that is due, taken off the list.
Due(kind) == timers # <<>> /\ timers[1].rem = 0 /\ timers[1].kind = kind
Popped == [World EXCEPT !.timers = Tail(@)]

\* The callback startGame schedules.
TimeoutStartGame ==
  /\ Due("startGame")
  /\ \E draw \in 1..Len(SpawnDraws) :
       Commit([spawnAsteroids(Popped, 3, 0, draw) EXCEPT !.gameState = PLAYING],
              "startGameTimeout")
  /\ UNCHANGED <<highScores, keys, frames>>

\* The callback startNextLevel schedules; the timer holds nextLevel.
TimeoutNextLevel ==
  /\ Due("nextLevel")
  /\ \E draw \in 1..Len(SpawnDraws) :
       LET w == Popped
           w1 == IF w.ship # Null
                 THEN [w EXCEPT !.ship[1].position = Pt((Width * 10) \div 2, (Height * 10) \div 2),
                                !.ship[1].velocity = Pt(0, 0),
                                !.ship[1].angle = 0 - PI \div 2,
                                !.ship[1].invulnerable = 3000,
                                !.ship[1].thrusting = FALSE]
                 ELSE w
       IN Commit([spawnAsteroids(w1, 3, timers[1].arg, draw)
                    EXCEPT !.gameState = PLAYING, !.sinceUfo = 0],
                 "nextLevelTimeout")
  /\ UNCHANGED <<highScores, keys, frames>>

\* The callback a death schedules; the timer holds the lives its closure reads.
TimeoutRespawn ==
  /\ Due("respawn")
  /\ Commit(IF timers[1].arg > 0 THEN resetShip(Popped) ELSE Popped, "respawnTimeout")
  /\ UNCHANGED <<highScores, keys, frames>>

\* The callback handleGameOver schedules; the timer holds the score its closure reads.
isHighScore(sc) == Len(highScores) < 10 \/ sc > highScores[Len(highScores)].score

TimeoutGameOver ==
  /\ Due("gameOver")
  /\ Commit([Popped EXCEPT !.gameState = IF isHighScore(timers[1].arg)
                                         THEN ENTER_INITIALS ELSE HIGH_SCORES],
            "gameOverTimeout")
  /\ UNCHANGED <<highScores, keys, frames>>

\* The onChange of the initials input (maxLength 3).
UpperCase(c) == CASE c = "a" -> "A" [] c = "b" -> "B" [] OTHER -> c
toUpperCase(str) == [i \in 1..Len(str) |-> UpperCase(str[i])]
InitialsTyped == {<<>>, <<"a", "B">>}

TypeInitials(v) ==
  /\ gameState = ENTER_INITIALS
  /\ Commit([World EXCEPT !.initials = toUpperCase(v)], "setInitials")
  /\ UNCHANGED <<highScores, keys, frames>>

\* [...highScores, newEntry].sort((a, b) => b.score - a.score)
RECURSIVE InsertDesc(_, _)
InsertDesc(sorted, e) ==
  IF sorted = <<>> THEN <<e>>
  ELSE IF Head(sorted).score >= e.score THEN <<Head(sorted)>> \o InsertDesc(Tail(sorted), e)
  ELSE <<e>> \o sorted
\* The sort left out: the entry stays where it was appended.
SortDescAppended(seq) == seq

RECURSIVE SortDesc(_)
SortDesc(seq) ==
  IF seq = <<>> THEN <<>>
  ELSE InsertDesc(SortDesc(SubSeq(seq, 1, Len(seq) - 1)), seq[Len(seq)])

\* submitScore, from the SUBMIT button, which is disabled while initials is empty.
submitScore ==
  /\ gameState = ENTER_INITIALS
  /\ initials # <<>>
  /\ LET clean == SubSeq(toUpperCase(initials), 1, Min(3, Len(initials)))
         cleanInitials == IF clean = <<>> THEN <<"U", "N", "K">> ELSE clean
         newScores == SortDesc(Append(highScores, [name |-> cleanInitials, score |-> score]))
     IN highScores' = SubSeq(newScores, 1, Min(10, Len(newScores)))
  /\ Commit([World EXCEPT !.gameState = HIGH_SCORES], "submitScore")
  /\ UNCHANGED <<keys, frames>>

\* The time between two calls of animate, in milliseconds.
DeltaTimes == {50, 250}

\* One call of animate in a phase in which it updates the simulation (in the
\* other phases it only draws).
Frame ==
  /\ frames < MaxFrames
  /\ gameState \in UpdatePhases
  /\ \E deltaTime \in DeltaTimes :
       LET dt == Min(deltaTime, 100)
           probe == animate(World, gameState, loop, keys, dt, DefaultRnd)
       IN \E rnd \in RndFor(probe.used) :
            Commit(animate(World, gameState, loop, keys, dt, rnd), "animate")
  /\ frames' = frames + 1
  /\ UNCHANGED <<highScores, keys>>

\* ----------------------------------------------------------------- init

\* The component after it is mounted: the menu, the leaderboard loaded.
Mounted ==
  /\ gameState = MENU /\ score = 0 /\ lives = 3 /\ level = 1
  /\ highScores = DefaultScores
  /\ initials = <<>>
  /\ loop = [score |-> 0, lives |-> 3, level |-> 1]
  /\ ship = Null /\ ufo = Null
  /\ asteroids = <<>> /\ bullets = <<>> /\ missiles = <<>> /\ powerUps = <<>>
  /\ keys = {}
  /\ sinceUfo = UFO_SPAWN_RATE_MAX + 1
  /\ nextUfoSpawnDelay = 20000
  /\ timers = <<>>
  /\ frames = 0
  /\ last = [act |-> "init", gameState |-> MENU, score |-> 0, lives |-> 3, level |-> 1,
             ev |-> <<>>, mid |-> <<>>]

\* Games in progress.  Each scene is a state a game reaches with no missile in
\* flight and, but for one scene, no bullet: the ship idle where resetShip put
\* it, asteroids, the UFO or power-ups drifted next to it or onto it while it
\* was invulnerable, and power-ups picked up earlier.
Centre == Pt((Width * 10) \div 2, (Height * 10) \div 2)
Off(dx, dy) == Pt(Centre.x + dx, Centre.y + dy)

\* The ship with inv milliseconds of invulnerability left.
Idle(inv) == [NewShip(Width, Height) EXCEPT !.invulnerable = inv]
\* The invulnerability runs out in the next frame.
Exposed == Idle(50)
ShipModes == {Exposed, [Exposed EXCEPT !.powerupShieldTimer = 5000], Idle(1000)}

Rock(size, pos) == NewAsteroid(size, pos, 0, ASTEROID_CONFIG[size].speed, 2000)
\* The UFO at pos, cd milliseconds before it shoots.
UfoAt(pos, cd) == [NewUfo(Width, TRUE, pos.y) EXCEPT !.position = pos,
                                                    !.directionChangeTimer = 2000,
                                                    !.shootCooldown = cd]
\* The UFO on the ship.
Near(cd) == UfoAt(Off(0 - 200, 0), cd)
FarL == Off(0 - 2500, 0 - 2000)
FarM == Off(2500, 0 - 2000)

Scene(lv, sc, lvl, lp, s, u, as, ps) ==
  [lives |-> lv, score |-> sc, level |-> lvl, loop |-> lp, ship |-> Ref(s), ufo |-> u,
   asteroids |-> as, powerUps |-> ps, board |-> DefaultScores, shots |-> <<>>]

FirstLevel == [score |-> 0, lives |-> 3, level |-> 1]

Scenes ==
  \* an asteroid and the UFO on the ship, the UFO about to shoot
  {Scene(lv, 1040, 1, FirstLevel, s, Ref(Near(50)),
         <<Rock("large", Off(300, 0))>>, <<>>) :
     lv \in {1, 3}, s \in ShipModes}
  \cup
  \* an asteroid on the ship; the last life is played with a full leaderboard
  {[Scene(lv, 790, 1, FirstLevel, Exposed, Null,
          <<Rock("large", Off(300, 0)), Rock("medium", FarM)>>, <<>>)
      EXCEPT !.board = IF lv = 1 THEN FullBoard ELSE DefaultScores] :
     lv \in {1, 2}}
  \cup
  \* the same last life, begun (after a respawn) with a score the full
  \* leaderboard takes; a small asteroid crosses the line of fire where a
  \* bullet is in its second frame
  {[Scene(1, 790, 1, [score |-> 600, lives |-> 1, level |-> 1], Exposed, Null,
          <<Rock("large", Off(300, 0)), Rock("small", Off(0 - 150, 0 - 950))>>, <<>>)
      EXCEPT !.board = FullBoard]}
  \cup
  \* the UFO on the ship, every asteroid gone
  {Scene(lv, 1560, 1, FirstLevel, Exposed, Ref(Near(1000)), <<>>, <<>>) :
     lv \in {1, 2}}
  \cup
  {\* the UFO on the ship and the last asteroid in front of the gun
   Scene(1, 1460, 1, FirstLevel, Exposed, Ref(Near(1000)),
         <<Rock("small", Off(0 - 60, 0 - 400))>>, <<>>),
   \* a large and a small asteroid in front of the triple gun
   Scene(3, 690, 1, FirstLevel, [Idle(0) EXCEPT !.powerupMultiShotTimer = 5000], Null,
         <<Rock("large", Off(0 - 125, 0 - 620)), Rock("small", Off(140, 0 - 420))>>, <<>>),
   \* an asteroid of each size in front of the missile launcher
   Scene(3, 690, 1, FirstLevel, [Idle(1000) EXCEPT !.missileAmmo = 3], Null,
         <<Rock("large", Off(0, 0 - 600)), Rock("medium", Off(150, 0 - 450)),
           Rock("small", Off(0 - 100, 0 - 400))>>, <<>>),
   \* the UFO in front of the triple gun and the missile launcher
   Scene(3, 1040, 1, FirstLevel,
         [Idle(0) EXCEPT !.powerupMultiShotTimer = 5000, !.missileAmmo = 1],
         Ref(UfoAt(Off(0 - 50, 0 - 500), 1000)), <<Rock("large", FarL)>>, <<>>),
   \* the last asteroid of the second level in front of the gun
   Scene(3, 4060, 2, [score |-> 1560, lives |-> 3, level |-> 2], Idle(0), Null,
         <<Rock("small", Off(0 - 60, 0 - 400))>>, <<>>),
   \* a power-up of each type on the ship, which has half of a shield and two
   \* missiles left
   Scene(2, 1040, 1, FirstLevel,
         [Idle(3000) EXCEPT !.powerupShieldTimer = 5000, !.missileAmmo = 2],
         Null, <<Rock("large", FarL)>>,
         <<NewPowerUp(Off(100, 0), "SHIELD", Pt(20, 0)),
           NewPowerUp(Off(0, 100), "MISSILE", Pt(0, 20)),
           NewPowerUp(Off(0 - 100, 0), "MULTI_SHOT", Pt(0 - 20, 0)),
           NewPowerUp(Off(0, 0 - 100), "TIME_SLOW", Pt(0, 0 - 20))>>),
   \* the UFO leaving the field on the right, an asteroid crossing the right
   \* edge and another the left edge
   Scene(3, 1040, 1, FirstLevel, Idle(1000),
         Ref([UfoAt(Pt(Width * 10 + 450, 2000), 1000) EXCEPT !.directionChangeTimer = 1000]),
         <<Rock("large", Pt(Width * 10 - 10, 1000)),
           NewAsteroid("medium", Pt(10, 5000), PI, ASTEROID_CONFIG.medium.speed, 2000)>>,
         <<>>),
   \* time slow about to run out: the UFO about to shoot, an asteroid and a
   \* power-up adrift, the gun and the missile launcher ready
   Scene(3, 1040, 1, FirstLevel,
         [Idle(1000) EXCEPT !.powerupTimeSlowTimer = 50, !.missileAmmo = 1],
         Ref(UfoAt(Off(0 - 2000, 0 - 1500), 20)), <<Rock("large", FarM)>>,
         <<NewPowerUp(Off(2000, 1500), "MULTI_SHOT", Pt(20, 0))>>),
   \* an asteroid on the ship and in front of its missile launcher
   Scene(2, 690, 1, FirstLevel, [Exposed EXCEPT !.missileAmmo = 1], Null,
         <<Rock("large", Off(0, 0 - 300)), Rock("medium", FarM)>>, <<>>),
   \* an asteroid and the UFO, one over the other, in front of the gun and the
   \* missile launcher
   Scene(3, 1040, 1, FirstLevel, [Idle(1000) EXCEPT !.missileAmmo = 1],
         Ref(UfoAt(Off(0, 0 - 450), 1000)), <<Rock("large", Off(0, 0 - 600))>>, <<>>),
   \* the gun fired three frames of 50 ms ago: its bullet in flight, 100 ms of
   \* cooldown left
   [Scene(3, 1040, 1, FirstLevel, [Idle(1000) EXCEPT !.cooldown = 100], Null,
          <<Rock("large", FarL)>>, <<>>)
      EXCEPT !.shots = <<[ShipBullet(NewShip(Width, Height), 0)
                            EXCEPT !.position = Move(@, Pt(0, 0 - BULLET_SPEED), 150),
                                   !.life = BULLET_LIFE - 150]>>]}
  \cup
  \* a shield power-up on the ship and the UFO on it, about to shoot
  {Scene(3, 1040, 1, FirstLevel, s, Ref(Near(50)), <<Rock("large", FarL)>>,
         <<NewPowerUp(Off(100, 0), "SHIELD", Pt(20, 0))>>) :
     s \in {Exposed, Idle(1000)}}

InPlay ==
  \E sc \in Scenes :
    /\ gameState = PLAYING /\ score = sc.score /\ lives = sc.lives /\ level = sc.level
    /\ highScores = sc.board
    /\ initials = <<>>
    /\ loop = sc.loop
    /\ ship = sc.ship /\ ufo = sc.ufo
    /\ asteroids = sc.asteroids /\ bullets = sc.shots
    /\ missiles = <<>> /\ powerUps = sc.powerUps
    /\ keys = {}
    /\ sinceUfo = 5000
    /\ nextUfoSpawnDelay = 20000
    /\ timers = <<>>
    /\ frames = 0
    /\ last = [act |-> "init", gameState |-> PLAYING, score |-> sc.score,
               lives |-> sc.lives, level |-> sc.level, ev |-> <<>>, mid |-> <<>>]

\* A commentary line: where it comes from, the context it is for, and the
\* request whose response it is.  NoText is the empty or missing text.
Message(src, ctx, req) == [src |-> src, ctx |-> ctx, req |-> req]
InitialMessage == Message("initial", "", 0)
NoText == Message("", "", 0)

NoCommentary ==
  /\ ai = FALSE /\ aiMessage = InitialMessage /\ isAiLoading = FALSE /\ requests = <<>>

Init == (Mounted \/ InPlay) /\ NoCommentary

Next ==
  \/ \E code \in KeyCodes : KeyDown(code)
  \/ \E code \in KeyCodes : KeyUp(code)
  \/ ClickStart
  \/ ClickHighScores
  \/ ClickMainMenu
  \/ \E d \in TickSteps : Tick(d)
  \/ TimeoutStartGame
  \/ TimeoutNextLevel
  \/ TimeoutRespawn
  \/ TimeoutGameOver
  \/ \E v \in InitialsTyped : TypeInitials(v)
  \/ submitScore
  \/ Frame

Spec == Init /\ [][Next]_vars

\* Time passes, and the browser runs every setTimeout callback that is due.
FairSpec ==
  /\ Spec
  /\ WF_vars(\E d \in TickSteps : Tick(d))
  /\ WF_vars(TimeoutStartGame)
  /\ WF_vars(TimeoutNextLevel)
  /\ WF_vars(TimeoutRespawn)
  /\ WF_vars(TimeoutGameOver)

\* ------------------------------------------- functions checked on their own

\* Calls of wrapPosition, of normalizeAngle and of loadHighScores on their own:
\* last holds the call: its arguments, then its result.  For the two functions
\* of gameMath the component is left as mounted; loadHighScores is called by the
\* effect of mounting, with highScores still the empty array.
WrapInputs ==
  [fn : {"wrapPosition"},
   pos : {Pt(x, y) : x \in {0 - 20000, 0 - 1, 0, 5, Width * 10, Width * 10 + 1, 50000},
                     y \in {0 - 20000, 0 - 1, 0, Height * 10, 50000}},
   width : {1, Width}, height : {1, Height}]

AngleInputs ==
  [fn : {"normalizeAngle"},
   angle : {0 - 3 * PI, 0 - 2 * PI - 1, 0 - PI - 1, 0 - PI, 1 - PI, 0 - 1, 0, 1,
            PI - 1, PI, PI + 1, 2 * PI, 3 * PI, 10 * PI + 7}]

StoreInputs ==
  [fn : {"loadHighScores"},
   stored : {Absent, EmptyString, NotJson, Stringify(DefaultScores), Stringify(FullBoard)}]

MathInit ==
  /\ \E in \in WrapInputs \cup AngleInputs \cup StoreInputs : last = [act |-> "input", in |-> in]
  /\ gameState = MENU /\ score = 0 /\ lives = 3 /\ level = 1
  /\ highScores = IF last.in.fn = "loadHighScores" THEN <<>> ELSE DefaultScores
  /\ initials = <<>>
  /\ loop = [score |-> 0, lives |-> 3, level |-> 1]
  /\ ship = Null /\ ufo = Null
  /\ asteroids = <<>> /\ bullets = <<>> /\ missiles = <<>> /\ powerUps = <<>>
  /\ keys = {}
  /\ sinceUfo = UFO_SPAWN_RATE_MAX + 1
  /\ nextUfoSpawnDelay = 20000
  /\ timers = <<>>
  /\ frames = 0
  /\ NoCommentary

MathUnchanged ==
  UNCHANGED <<gameState, score, lives, level, highScores, initials, loop, ship, ufo,
              asteroids, bullets, missiles, powerUps, keys, sinceUfo,
              nextUfoSpawnDelay, timers, frames, ai, aiMessage, isAiLoading, requests>>

CallWrapPosition ==
  /\ last.act = "input" /\ last.in.fn = "wrapPosition"
  /\ last' = [act |-> "wrapPosition", in |-> last.in,
              result |-> wrapPosition(last.in.pos, last.in.width, last.in.height)]
  /\ MathUnchanged

CallNormalizeAngle ==
  /\ last.act = "input" /\ last.in.fn = "normalizeAngle"
  /\ last' = [act |-> "normalizeAngle", in |-> last.in,
              result |-> normalizeAngle(last.in.angle),
              again |-> normalizeAngle(normalizeAngle(last.in.angle))]
  /\ MathUnchanged

CallLoadHighScores ==
  /\ last.act = "input" /\ last.in.fn = "loadHighScores"
  /\ LET result == loadHighScores(last.in.stored)
     IN /\ highScores' = result.highScores
        /\ last' = [act |-> "loadHighScores", in |-> last.in, result |-> result]
  /\ UNCHANGED <<gameState, score, lives, level, initials, loop, ship, ufo,
                 asteroids, bullets, missiles, powerUps, keys, sinceUfo,
                 nextUfoSpawnDelay, timers, frames, ai, aiMessage, isAiLoading, requests>>

MathNext == CallWrapPosition \/ CallNormalizeAngle \/ CallLoadHighScores

MathSpec == MathInit /\ [][MathNext]_vars

\* ------------------------------------------------------------ commentary

Contexts == {"start", "game_over", "level_clear"}

\* The commentary touches nothing of the game.
GameUnchanged ==
  UNCHANGED <<gameState, score, lives, level, highScores, initials, loop, ship, ufo,
              asteroids, bullets, missiles, powerUps, keys, sinceUfo,
              nextUfoSpawnDelay, timers, frames>>

\* getFallback
getFallback(context) == Message("fallback", context, 0)

\* What ai.models.generateContent does for request req: it throws, or its
\* response has no text, or it has a text.
Responses(context, req) ==
  {[throws |-> TRUE, text |-> NoText], [throws |-> FALSE, text |-> NoText],
   [throws |-> FALSE, text |-> Message("gemini", context, req)]}

\* generateGameCommentary without the try and catch.
generateGameCommentaryUncaught(context, client, response) ==
  IF ~client THEN [rejected |-> FALSE, text |-> getFallback(context)]
  ELSE IF response.throws THEN [rejected |-> TRUE, text |-> NoText]
  ELSE [rejected |-> FALSE,
        text |-> IF response.text = NoText THEN getFallback(context) ELSE response.text]

\* generateGameCommentary(context): how its promise settles, given whether the
\* client exists and what generateContent does.
generateGameCommentary(context, client, response) ==
  IF ~client THEN [rejected |-> FALSE, text |-> getFallback(context)]
  ELSE IF response.throws THEN [rejected |-> FALSE, text |-> getFallback(context)]
  ELSE [rejected |-> FALSE,
        text |-> IF response.text = NoText THEN getFallback(context) ELSE response.text]

\* fetchAiCommentary(type), up to its await: startGame's callback calls it with
\* start, startNextLevel with level_clear and handleGameOver with game_over.
FetchAiCommentary(type) ==
  /\ Len(requests) < MaxRequests
  /\ isAiLoading' = TRUE
  /\ requests' = Append(requests, [type |-> type, done |-> FALSE,
                                    response |-> [throws |-> FALSE, text |-> NoText],
                                    result |-> [rejected |-> FALSE, text |-> NoText]])
  /\ last' = [act |-> "fetchAiCommentary", req |-> Len(requests) + 1]
  /\ UNCHANGED <<ai, aiMessage>>
  /\ GameUnchanged

\* fetchAiCommentary after its await: the promise of request i settles, and if
\* it is fulfilled the line is set and the loading flag cleared.
SettleCommentary(i) ==
  /\ i \in 1..Len(requests) /\ ~requests[i].done
  /\ \E response \in Responses(requests[i].type, i) :
       LET result == generateGameCommentary(requests[i].type, ai, response)
       IN /\ requests' = [requests EXCEPT ![i].done = TRUE, ![i].response = response,
                                          ![i].result = result]
          /\ aiMessage' = IF result.rejected THEN aiMessage ELSE result.text
          /\ isAiLoading' = IF result.rejected THEN isAiLoading ELSE FALSE
  /\ last' = [act |-> "settle", req |-> i]
  /\ UNCHANGED ai
  /\ GameUnchanged

AiInit ==
  /\ Mounted
  /\ ai \in BOOLEAN /\ aiMessage = InitialMessage /\ isAiLoading = FALSE /\ requests = <<>>

AiNext ==
  \/ \E type \in Contexts : FetchAiCommentary(type)
  \/ \E i \in 1..MaxRequests : SettleCommentary(i)

AiSpec == AiInit /\ [][AiNext]_vars

\* ------------------------------------------- the placement loop, step by step

\* spawnAsteroids followed statement by statement, for canvases of several
\* sizes (the canvas takes the size of the window).  last holds the call: its
\* arguments, then the loop's variables: i, the position drawn, newAsteroids
\* and the place in the code (draw: before the body of the do-while, or at the
\* test of the for loop; test: at the condition of the do-while; done: returned).
\* startGame calls it with (3, 0) and startNextLevel with (3, nextLevel).
FieldSizes == {<<800, 600>>, <<300, 300>>, <<200, 600>>, <<200, 200>>}

SpawnInputs ==
  [fn : {"spawnAsteroids"}, count : {3}, levelMultiplier : {0, 2},
   width : {f[1] : f \in FieldSizes}, height : {f[2] : f \in FieldSizes}]

\* The values (pixels) randomRange(0, width) and randomRange(0, height) give:
\* each is in [0, width) and [0, height).
PositionDraws(width, height) ==
  {Pt(0, 0), Pt(width \div 2, height \div 2), Pt(width \div 2, 0), Pt(width - 1, height - 1)}
AllDraws == UNION {PositionDraws(f[1], f[2]) : f \in FieldSizes}

SpawnInit ==
  /\ \E in \in SpawnInputs :
       /\ <<in.width, in.height>> \in FieldSizes
       /\ last = [act |-> "input", in |-> in]
  /\ gameState = LEVEL_TRANSITION /\ score = 0 /\ lives = 3 /\ level = 1
  /\ highScores = DefaultScores
  /\ initials = <<>>
  /\ loop = [score |-> 0, lives |-> 3, level |-> 1]
  /\ ship = Ref(NewShip(last.in.width, last.in.height)) /\ ufo = Null
  /\ asteroids = <<>> /\ bullets = <<>> /\ missiles = <<>> /\ powerUps = <<>>
  /\ keys = {}
  /\ sinceUfo = 0
  /\ nextUfoSpawnDelay = 20000
  /\ timers = <<>>
  /\ frames = 0
  /\ NoCommentary

\* What the placement loop leaves alone.
SpawnUnchanged ==
  UNCHANGED <<gameState, score, lives, level, highScores, initials, loop, ship, ufo,
              bullets, missiles, powerUps, keys, sinceUfo,
              nextUfoSpawnDelay, timers, frames, ai, aiMessage, isAiLoading, requests>>

\* The call: newAsteroids = [], i = 0.
CallSpawnAsteroids ==
  /\ last.act = "input" /\ last.in.fn = "spawnAsteroids"
  /\ last' = [act |-> "spawnAsteroids", in |-> last.in, pc |-> "draw", i |-> 0,
              pos |-> Pt(0, 0), newAsteroids |-> <<>>]
  /\ UNCHANGED asteroids
  /\ SpawnUnchanged

InLoop(pc) == last.act = "spawnAsteroids" /\ last.pc = pc

\* i < count + levelMultiplier, and the body of the do-while: x and y are drawn.
DrawPosition(p) ==
  /\ InLoop("draw") /\ last.i < last.in.count + last.in.levelMultiplier
  /\ p \in PositionDraws(last.in.width, last.in.height)
  /\ last' = [last EXCEPT !.pos = p, !.pc = "test"]
  /\ UNCHANGED asteroids
  /\ SpawnUnchanged

\* The condition of the do-while holds: the position is thrown away.
RejectPosition ==
  /\ InLoop("test") /\ InExclusion(last.pos, last.in.width, last.in.height)
  /\ last' = [last EXCEPT !.pc = "draw"]
  /\ UNCHANGED asteroids
  /\ SpawnUnchanged

\* The condition fails: the asteroid is pushed on newAsteroids and i++.  Of the
\* heading, the speed and the spin one draw is followed.
PushAsteroid ==
  /\ InLoop("test") /\ ~InExclusion(last.pos, last.in.width, last.in.height)
  /\ last' = [last EXCEPT
                !.newAsteroids = Append(@, NewAsteroid("large",
                                                        Pt(last.pos.x * 10, last.pos.y * 10),
                                                        PI \div 2,
                                                        ASTEROID_CONFIG.large.speed, 2000)),
                !.i = @ + 1, !.pc = "draw"]
  /\ UNCHANGED asteroids
  /\ SpawnUnchanged

\* The for loop is over: asteroidsRef.current = [...asteroidsRef.current, ...newAsteroids].
ReturnAsteroids ==
  /\ InLoop("draw") /\ last.i >= last.in.count + last.in.levelMultiplier
  /\ asteroids' = asteroids \o last.newAsteroids
  /\ last' = [last EXCEPT !.pc = "done"]
  /\ SpawnUnchanged

\* The draws that end the do-while.
DrawOutside ==
  \E p \in AllDraws : ~InExclusion(p, last.in.width, last.in.height) /\ DrawPosition(p)

SpawnNext ==
  \/ CallSpawnAsteroids
  \/ \E p \in AllDraws : DrawPosition(p)
  \/ RejectPosition
  \/ PushAsteroid
  \/ ReturnAsteroids

\* The loop runs on, and a random draw that has a chance comes up in the end.
SpawnSpec ==
  /\ SpawnInit /\ [][SpawnNext]_vars
  /\ WF_vars(SpawnNext)
  /\ SF_vars(DrawOutside)

\* ------------------------------------------------------------ properties

\* The last action was a call of animate in phase PLAYING: it had a collision
\* phase, and Mid is the simulation as that phase found it.
AfterFrame == last.act = "animate" /\ last.mid # <<>>
Mid == last.mid[1]

Happened(t) == Count(last.ev, t)
HappenedTo(t, k) == Len(SelectSeq(last.ev, LAMBDA e : e.t = t /\ e.k = k))
Dead(seq) == SelectSeq(seq, LAMBDA e : e.dead)
OfOwner(seq, owner) == SelectSeq(seq, LAMBDA b : b.owner = owner)
AliveOf(seq, size) == Len(SelectSeq(seq, LAMBDA a : ~a.dead /\ a.size = size))
InSeq(e, seq) == \E i \in 1..Len(seq) : seq[i] = e
ShipAlive == ship # Null /\ ~ship[1].dead

\* obj overlaps the ship's hit circle (0.7 of its radius).
Touches(s, obj) ==
  checkCollision(s.position, (s.radius * 7) \div 10, obj.position, obj.radius)

\* The threats on the ship when the collision phase began: asteroids, the UFO
\* and UFO bullets that overlap its hit circle.
ThreatsAtMid ==
  Len(SelectSeq(Mid.asteroids, LAMBDA a : Touches(Mid.ship[1], a)))
  + Len(SelectSeq(OfOwner(Mid.bullets, "ufo"), LAMBDA b : Touches(Mid.ship[1], b)))
  + (IF Mid.ufo # Null /\ Touches(Mid.ship[1], Mid.ufo[1]) THEN 1 ELSE 0)

\* The points the events of the last frame are worth, by kind.
AsteroidPoints ==
  20 * HappenedTo("bulletHitAsteroid", "large")
  + 50 * HappenedTo("bulletHitAsteroid", "medium")
  + 100 * HappenedTo("bulletHitAsteroid", "small")
  + 50 * Happened("missileHitAsteroid")
UfoKills == Happened("bulletHitUfo") + Happened("missileHitUfo")

\* C1: lives never go below 0, and whenever a frame takes them to 0 the phase
\* is GAME_OVER after that frame and handleGameOver has run exactly once.
C1_ZeroLivesIsGameOver ==
  /\ lives >= 0
  /\ (last.act = "animate" /\ last.lives > 0 /\ lives = 0)
       => (gameState = GAME_OVER /\ Happened("handleGameOver") = 1)

\* C1, the part that holds: lives never go below 0 and a frame that takes them
\* to 0 runs handleGameOver exactly once.
C1_GameOverOnce ==
  /\ lives >= 0
  /\ (last.act = "animate" /\ last.lives > 0 /\ lives = 0) => Happened("handleGameOver") = 1
  /\ Happened("handleGameOver") >= 1 => (last.lives > 0 /\ lives = 0)

\* The last life is lost in a frame.
C1_LastLifeLost == last.act = "animate" /\ last.lives = 1 /\ lives = 0

\* C2: one frame takes at most one life, whatever overlaps the ship.
C2_OneDeathPerFrame ==
  /\ last.act = "animate" => (lives >= last.lives - 1 /\ lives <= last.lives)
  /\ Happened("death") <= 1
  /\ lives = last.lives - Happened("death") \/ last.act \in {"startGame", "handleKeyDown"}

\* A frame in which two or more threats overlap the exposed ship and it dies.
C2_ManyThreatsOneDeath ==
  /\ AfterFrame /\ Mid.ship # Null
  /\ ThreatsAtMid >= 2
  /\ Happened("death") = 1 /\ lives = last.lives - 1

\* C3: the respawn callback leaves a live ship only with lives left and the game
\* not over, and whenever the game is over (GAME_OVER, ENTER_INITIALS,
\* HIGH_SCORES, or no lives) there is no live ship.
C3_NoRespawnAfterGameOver ==
  /\ (last.act = "respawnTimeout" /\ ShipAlive)
       => (lives > 0 /\ gameState \notin {GAME_OVER, ENTER_INITIALS, HIGH_SCORES})
  /\ (gameState \in {GAME_OVER, ENTER_INITIALS, HIGH_SCORES} \/ lives = 0) => ~ShipAlive

\* The respawn callback has put a new ship in a game with lives left.
C3_Respawned == last.act = "respawnTimeout" /\ ShipAlive /\ lives > 0 /\ last.lives = lives

\* C4: a frame that ends with the shield countdown positive has not marked the
\* ship dead and has not taken a life.
C4_ShieldProtects ==
  (AfterFrame /\ ship # Null /\ ship[1].powerupShieldTimer > 0)
    => /\ lives = last.lives
       /\ Happened("death") = 0
       /\ Mid.ship # Null /\ ship[1].dead = Mid.ship[1].dead

\* A shielded live ship overlapped by an asteroid, the UFO and a UFO bullet.
C4_ShieldUnderThreat ==
  /\ AfterFrame /\ ShipAlive /\ ship[1].powerupShieldTimer > 0
  /\ ship[1].invulnerable <= 0
  /\ ThreatsAtMid >= 3
  /\ Happened("shieldHit") >= 1

\* C5: while the invulnerability countdown is positive at the collision phase,
\* that phase leaves lives, the dead flag and every UFO bullet as they were, and
\* the UFO too unless a ship bullet or a missile destroys it.
C5_InvulnerableUntouched ==
  (AfterFrame /\ Mid.ship # Null /\ Mid.ship[1].invulnerable > 0)
    => /\ lives = last.lives
       /\ ship[1].dead = Mid.ship[1].dead
       /\ OfOwner(bullets, "ufo") = OfOwner(Mid.bullets, "ufo")
       /\ Happened("shipHitUfo") = 0 /\ Happened("death") = 0 /\ Happened("shieldHit") = 0
       /\ ufo = Mid.ufo \/ (ufo = Null /\ UfoKills = 1)

\* An invulnerable live ship overlapped by an asteroid, the UFO and a UFO bullet.
C5_InvulnerableUnderThreat ==
  /\ AfterFrame /\ ShipAlive /\ Mid.ship[1].invulnerable > 0
  /\ ThreatsAtMid >= 3
  /\ ufo # Null

\* An asteroid of the collection that was not there when the collision phase began.
IsChild(a) == ~InSeq([a EXCEPT !.dead = FALSE], Mid.asteroids)

\* C6: each asteroid a bullet destroys is replaced by exactly two of the next
\* smaller class at its position, and a small one by nothing: after a frame
\* the live asteroids of each class are those before, less the destroyed ones,
\* plus two for each destroyed asteroid of the class above.
C6_SplitInTwo ==
  AfterFrame =>
    /\ AliveOf(asteroids, "large") = AliveOf(Mid.asteroids, "large")
         - HappenedTo("bulletHitAsteroid", "large") - HappenedTo("missileHitAsteroid", "large")
    /\ AliveOf(asteroids, "medium") = AliveOf(Mid.asteroids, "medium")
         - HappenedTo("bulletHitAsteroid", "medium") - HappenedTo("missileHitAsteroid", "medium")
         + 2 * HappenedTo("bulletHitAsteroid", "large")
    /\ AliveOf(asteroids, "small") = AliveOf(Mid.asteroids, "small")
         - HappenedTo("bulletHitAsteroid", "small") - HappenedTo("missileHitAsteroid", "small")
         + 2 * HappenedTo("bulletHitAsteroid", "medium")
    /\ \A i \in 1..Len(asteroids) :
         IsChild(asteroids[i]) =>
           /\ asteroids[i].size # "large"
           /\ asteroids[i].radius = ASTEROID_CONFIG[asteroids[i].size].radius
           /\ \E j \in 1..Len(Mid.asteroids) :
                /\ Mid.asteroids[j].position = asteroids[i].position
                /\ ~InSeq(Mid.asteroids[j], asteroids)

\* A frame in which bullets destroy a large, a medium and a small asteroid.
C6_EachClassSplit ==
  /\ AfterFrame
  /\ HappenedTo("bulletHitAsteroid", "large") >= 1
  /\ HappenedTo("bulletHitAsteroid", "medium") >= 1
  /\ HappenedTo("bulletHitAsteroid", "small") >= 1
  /\ \E i \in 1..Len(asteroids) : IsChild(asteroids[i]) /\ asteroids[i].size = "medium"
  /\ \E i \in 1..Len(asteroids) : IsChild(asteroids[i]) /\ asteroids[i].size = "small"

\* C7: a missile that hits an asteroid of any class leaves it and itself marked
\* dead, adds no asteroid and scores 50: after a frame the dead asteroids are
\* the ones missiles hit, the dead missiles the ones that hit, and a frame
\* without bullet hits has no new asteroid and 50 points for each dead asteroid.
C7_MissileDestroysOutright ==
  AfterFrame =>
    /\ Len(Dead(asteroids)) = Happened("missileHitAsteroid")
    /\ Len(Dead(missiles)) = Happened("missileHitAsteroid") + Happened("missileHitUfo")
    /\ Happened("bulletHitAsteroid") = 0 =>
         /\ Len(asteroids) = Len(Alive(Mid.asteroids))
         /\ \A i \in 1..Len(asteroids) : ~IsChild(asteroids[i])
         /\ score = last.score + 50 * Len(Dead(asteroids)) + 500 * UfoKills

\* A frame in which missiles destroy a large, a medium and a small asteroid.
C7_EachClassHit ==
  /\ AfterFrame
  /\ Happened("bulletHitAsteroid") = 0
  /\ \A size \in {"large", "medium", "small"} :
       \E i \in 1..Len(asteroids) : asteroids[i].dead /\ asteroids[i].size = size
  /\ Len(Dead(missiles)) = 3
  /\ score = last.score + 150

\* C8: a frame raises the score by 20, 50 or 100 for each large, medium or small
\* asteroid a bullet destroys, once for each; the asteroid has left the
\* collection, the bullet is marked dead, one bullet for each hit, and is
\* dropped by the next update.
C8_ScoreByClass ==
  /\ AfterFrame =>
       /\ score = last.score + AsteroidPoints + 500 * UfoKills
       /\ Len(Dead(OfOwner(bullets, "ship")))
            = Happened("bulletHitAsteroid") + Happened("bulletHitUfo")
       /\ Len(Alive(asteroids)) = Len(Alive(Mid.asteroids))
            - Happened("bulletHitAsteroid") - Happened("missileHitAsteroid")
            + 2 * (HappenedTo("bulletHitAsteroid", "large")
                   + HappenedTo("bulletHitAsteroid", "medium"))
       /\ Dead(Mid.bullets) = <<>>
  /\ (last.act = "animate" /\ last.mid = <<>>) => Dead(bullets) = <<>>

\* A frame in which a bullet destroys an asteroid and the score rises by its class.
C8_AsteroidShot ==
  /\ AfterFrame
  /\ Happened("bulletHitAsteroid") = 1 /\ Happened("missileHitAsteroid") = 0 /\ UfoKills = 0
  /\ score - last.score \in {20, 50, 100}
  /\ Len(Dead(bullets)) = 1

\* C9: when a ship bullet or a missile destroys the UFO, the frame scores 500
\* for it once, however many projectiles overlap it, the slot is empty and
\* the spawn time is reset; a live missile on the UFO always destroys it.
C9_UfoWorth500Once ==
  AfterFrame =>
    /\ UfoKills <= 1
    /\ (Mid.ufo # Null /\ ufo = Null /\ Happened("shipHitUfo") = 0)
         => (UfoKills = 1 /\ sinceUfo = 0 /\ score = last.score + 500 + AsteroidPoints)
    /\ UfoKills = 1 => (Mid.ufo # Null /\ ufo = Null /\ sinceUfo = 0)
    /\ (Mid.ufo # Null /\ \E i \in 1..Len(Mid.missiles) :
          checkCollision(Mid.missiles[i].position, Mid.missiles[i].radius,
                         Mid.ufo[1].position, Mid.ufo[1].radius))
         => ufo = Null

\* A frame in which two bullets and a missile overlap the UFO and it is destroyed.
C9_ManyProjectilesOneUfo ==
  /\ AfterFrame /\ Mid.ufo # Null /\ ufo = Null
  /\ Len(SelectSeq(OfOwner(Mid.bullets, "ship") \o Mid.missiles,
                   LAMBDA e : checkCollision(e.position, e.radius,
                                             Mid.ufo[1].position, Mid.ufo[1].radius))) >= 3
  /\ score = last.score + 500

IsField(as, n) ==
  /\ Len(as) = n
  /\ \A i \in 1..n :
       /\ as[i].size = "large" /\ ~as[i].dead /\ as[i].radius = ASTEROID_CONFIG.large.radius
       /\ ~InExclusion(Pt(as[i].position.x \div 10, as[i].position.y \div 10), Width, Height)

\* The phase has just changed from LEVEL_TRANSITION.
LeftTransition == last.gameState = LEVEL_TRANSITION /\ gameState # LEVEL_TRANSITION

\* C11, the state part: while the phase is LEVEL_TRANSITION the callback that
\* ends it is pending, at most 2 s away; the phase leaves LEVEL_TRANSITION only
\* by that callback and only to PLAYING, and then the asteroids are one field
\* of the level (3 at a game start, 3 + level after a clear) and the ship's
\* invulnerable is 3 s.
C11_EnteredPlaying ==
  /\ gameState = LEVEL_TRANSITION =>
       \E i \in 1..Len(timers) :
         timers[i].kind \in {"startGame", "nextLevel"} /\ timers[i].rem <= 2000
  /\ LeftTransition =>
       /\ gameState = PLAYING
       /\ last.act \in {"startGameTimeout", "nextLevelTimeout"}
       /\ IsField(asteroids, IF last.act = "startGameTimeout" THEN 3 ELSE 3 + level)
       /\ ship # Null /\ ship[1].invulnerable = 3000

\* C11: LEVEL_TRANSITION always leads to PLAYING, by the callback set 2 s
\* before, and PLAYING is then entered with exactly one asteroid field of the
\* new level and the ship's invulnerability at its full 3 s.
C11_TransitionResolves ==
  /\ [](gameState = LEVEL_TRANSITION => <>(gameState = PLAYING))
  /\ []C11_EnteredPlaying

\* The callback of startNextLevel has entered PLAYING at level 3 with 6 asteroids.
C11_NextLevelEntered ==
  /\ LeftTransition /\ last.act = "nextLevelTimeout"
  /\ level = 3 /\ Len(asteroids) = 6

\* The leaderboard takes a score: it has fewer than 10 entries, or the score is
\* greater than its lowest.
Qualifies(sc) == Len(highScores) < 10 \/ sc > highScores[Len(highScores)].score

\* C12: the callback that ends GAME_OVER sets the phase to ENTER_INITIALS if the
\* score of the game that ended qualifies for the leaderboard and to HIGH_SCORES
\* otherwise.
C12_DecidedOnFinalScore ==
  (last.act = "gameOverTimeout" /\ last.gameState = GAME_OVER)
    => gameState = (IF Qualifies(score) THEN ENTER_INITIALS ELSE HIGH_SCORES)

\* The step is a call of startGame: the START GAME or NEW GAME button, or Space
\* on the menu.
StartStep ==
  \/ last'.act = "startGame"
  \/ last'.act = "handleKeyDown" /\ gameState = MENU /\ gameState' = LEVEL_TRANSITION

\* C13: a game start sets score, lives and level to 0, 3 and 1; no other step
\* lowers the score, raises the lives or lowers the level.
C13_ResetOnlyByStart ==
  [][IF StartStep
     THEN score' = 0 /\ lives' = 3 /\ level' = 1
     ELSE score' >= score /\ lives' <= lives /\ level' >= level]_vars

\* A new game started after a game that scored and lost its lives.
C13_StartedAfterGame ==
  /\ last.act = "startGame" /\ last.score > 0 /\ last.lives = 0
  /\ score = 0 /\ lives = 3 /\ level = 1

\* The last action was a call of animate that updated the simulation, and
\* Stepped is the simulation as its update left it: as the collision phase found
\* it, or as it is now when the call had no collision phase.
AfterUpdate == last.act = "animate"
Stepped ==
  IF last.mid # <<>> THEN Mid
  ELSE [ship |-> ship, ufo |-> ufo, asteroids |-> asteroids, bullets |-> bullets,
        missiles |-> missiles, powerUps |-> powerUps]

InField(p) == 0 <= p.x /\ p.x < Width * 10 /\ 0 <= p.y /\ p.y < Height * 10
OnField(p) == 0 <= p.x /\ p.x <= Width * 10 /\ 0 <= p.y /\ p.y <= Height * 10
AllPos(seq, P(_)) == \A i \in 1..Len(seq) : P(seq[i].position)

C15_WrapInRange ==
  last.act = "wrapPosition" =>
    /\ 0 <= last.result.x /\ last.result.x < last.in.width * 10
    /\ 0 <= last.result.y /\ last.result.y < last.in.height * 10

\* C16: normalizeAngle returns an angle in (-PI, PI], and applied to its result
\* it returns that result.
C16_HalfOpenAndIdempotent ==
  last.act = "normalizeAngle" =>
    /\ 0 - PI < last.result /\ last.result <= PI
    /\ last.again = last.result

\* The time steps a call of animate may work with.
ClampedDts == {Min(d, 100) : d \in DeltaTimes}

\* e, moved by d milliseconds and its life shortened by d, is in seq.
MovedIn(e, d, seq) ==
  InSeq([e EXCEPT !.position = Move(@, e.velocity, d), !.life = @ - d], seq)

\* A power-up moved by d, wrapped, its life shortened by d, is in seq.
DriftedIn(p, d, seq) ==
  InSeq([p EXCEPT !.position = wrapPosition(Move(@, p.velocity, d), Width, Height),
                  !.life = @ - d], seq)

\* The update of a frame has advanced the UFO, the asteroids and the UFO's
\* bullets by e and the ship, its bullets, the missiles and the power-ups by d;
\* now is the simulation after the update.
AdvancedBy(d, e, now) ==
  /\ Len(now.asteroids) = Len(asteroids)
  /\ \A i \in 1..Len(asteroids) :
       /\ now.asteroids[i].position
            = wrapPosition(Move(asteroids[i].position, asteroids[i].velocity, e), Width, Height)
       /\ now.asteroids[i].angle = asteroids[i].angle + (asteroids[i].rotationSpeed * e) \div 1000
  /\ (gameState = PLAYING /\ ufo # Null /\ now.ufo # Null) =>
       /\ now.ufo[1].position = Move(ufo[1].position, ufo[1].velocity, e)
       /\ now.ufo[1].shootCooldown \in {ufo[1].shootCooldown - e, UFO_FIRE_RATE}
       /\ now.ufo[1].directionChangeTimer
            \in {ufo[1].directionChangeTimer - e} \cup {r.timer : r \in DirDraw}
  /\ \A i \in 1..Len(bullets) :
       LET b == bullets[i]
           step == IF b.owner = "ufo" THEN e ELSE d
       IN (~b.dead /\ b.life > step) => MovedIn(b, step, now.bullets)
  /\ \A i \in 1..Len(now.bullets) :
       LET b == now.bullets[i]
       IN b.life \in {BULLET_LIFE - d, BULLET_LIFE - e} =>
            b.life = BULLET_LIFE - (IF b.owner = "ufo" THEN e ELSE d)
  /\ \A i \in 1..Len(missiles) :
       LET m == missiles[i]
       IN (~m.dead /\ m.life > d) =>
            \E j \in 1..Len(now.missiles) :
              /\ now.missiles[j].life = m.life - d
              /\ now.missiles[j].position
                   = Move(m.position, now.missiles[j].velocity, d)
  /\ \A i \in 1..Len(powerUps) :
       (~powerUps[i].dead /\ powerUps[i].life > d) => DriftedIn(powerUps[i], d, now.powerUps)
  /\ (gameState = PLAYING /\ ship # Null /\ ~ship[1].dead) =>
       /\ now.ship[1].position
            = wrapPosition(Move(ship[1].position, now.ship[1].velocity, d), Width, Height)
       /\ now.ship[1].invulnerable = Dec(ship[1].invulnerable, d)
       /\ now.ship[1].powerupShieldTimer = Dec(ship[1].powerupShieldTimer, d)

\* C17: a frame that begins with the ship's time slow countdown positive
\* advances the UFO, the asteroids and the UFO's bullets (position, spin,
\* cooldowns, life) by 0.3 of the frame's time step, and the ship, its bullets,
\* the missiles and the power-ups by the whole step; any other frame advances
\* all of them by the whole step.
C17_EnemiesSlowed ==
  [][last'.act = "animate" =>
       \E d \in ClampedDts :
         AdvancedBy(d, IF ship # Null /\ ship[1].powerupTimeSlowTimer > 0
                       THEN (d * 3) \div 10 ELSE d, Stepped')]_vars

\* The first frame of a game with time slow running: the UFO has fired and its
\* bullet has aged 30 ms, the ship has fired and its bullet has aged 100 ms, a
\* missile is in flight, and the asteroid, the UFO and a power-up have moved.
C17_SlowFrame ==
  /\ AfterFrame /\ frames = 1
  /\ ship # Null /\ ship[1].powerupTimeSlowTimer < 0
  /\ Happened("ufoFire") = 1 /\ Happened("fire") = 1
  /\ \E i \in 1..Len(Mid.bullets) :
       Mid.bullets[i].owner = "ufo" /\ Mid.bullets[i].life = BULLET_LIFE - 30
  /\ \E i \in 1..Len(Mid.bullets) :
       Mid.bullets[i].owner = "ship" /\ Mid.bullets[i].life = BULLET_LIFE - 100
  /\ Len(Mid.missiles) = 1 /\ Len(Mid.asteroids) = 1 /\ Len(Mid.powerUps) = 1
  /\ Mid.ufo # Null

\* The bullets of the UFO that overlapped the shield (twice the ship's radius)
\* when the collision phase began, by their place in the collection.
OnShield ==
  {i \in 1..Len(Mid.bullets) :
     /\ Mid.bullets[i].owner = "ufo"
     /\ checkCollision(Mid.bullets[i].position, Mid.bullets[i].radius,
                       Mid.ship[1].position, Mid.ship[1].radius * 2)}

\* The ship was alive at the collision phase and its shield countdown was
\* positive when the bullets were tested.
ShieldUp ==
  /\ AfterFrame /\ Mid.ship # Null /\ ~Mid.ship[1].dead
  /\ ship[1].powerupShieldTimer > 0

\* C18 as stated: every UFO bullet that overlaps the shield of a live ship is
\* marked dead, and the frame leaves the lives and the ship alive.
C18_ShieldAbsorbs ==
  ShieldUp =>
    /\ \A i \in OnShield : bullets[i].dead
    /\ lives = last.lives /\ ~ship[1].dead

\* C18: every UFO bullet that overlaps the shield of a live ship that is not
\* invulnerable is marked dead, and the next update drops it; the frame leaves
\* the lives and the ship alive, invulnerable or not.
C18_ShieldAbsorbsUnlessInvulnerable ==
  /\ ShieldUp =>
       /\ Mid.ship[1].invulnerable <= 0 => \A i \in OnShield : bullets[i].dead
       /\ lives = last.lives /\ ~ship[1].dead
  /\ AfterUpdate => Dead(Stepped.bullets) = <<>>

\* A frame in which the ship picks up a shield and the shield takes a bullet of
\* the UFO.
C18_PickedUpAndHit ==
  /\ ShieldUp /\ Mid.ship[1].invulnerable <= 0
  /\ HappenedTo("pickup", "SHIELD") = 1 /\ Happened("shieldHit") = 1
  /\ OnShield # {} /\ \A i \in OnShield : bullets[i].dead
  /\ lives = last.lives

\* C19: at the end of a frame no asteroid, bullet, missile or power-up of the
\* collections is marked dead, and every asteroid the collision phase found is
\* still in the collection when the phase ends, marked dead or not.
C19_PurgedAtFrameEnd ==
  /\ last.act = "animate" =>
       /\ Dead(asteroids) = <<>> /\ Dead(bullets) = <<>>
       /\ Dead(missiles) = <<>> /\ Dead(powerUps) = <<>>
  /\ AfterFrame =>
       \A i \in 1..Len(Mid.asteroids) :
         \/ InSeq(Mid.asteroids[i], asteroids)
         \/ InSeq([Mid.asteroids[i] EXCEPT !.dead = TRUE], asteroids)

\* C20: the multi shot, shield and time slow countdowns of the ship are never
\* negative.
C20_CountdownsNotNegative ==
  ship # Null =>
    /\ ship[1].powerupMultiShotTimer >= 0
    /\ ship[1].powerupShieldTimer >= 0
    /\ ship[1].powerupTimeSlowTimer >= 0

\* The UFO, moved by e, is past the edge it heads for by more than 50 pixels.
PastEdge(u, e) ==
  LET x == Move(u.position, u.velocity, e).x
  IN \/ u.velocity.x > 0 /\ x > (Width + 50) * 10
     \/ u.velocity.x < 0 /\ x < 0 - 500

\* C21: the UFO slot holds at most one UFO; a frame spawns a UFO only into an
\* empty slot, once, at the left or the right edge, after the spawn delay; and
\* the update of a frame in PLAYING empties the slot exactly when the UFO has
\* moved more than 50 pixels past the edge it heads for.
C21_OneUfo ==
  [][/\ Len(ufo) <= 1 /\ Len(ufo') <= 1
     /\ last'.act # "animate" => (ufo' = ufo \/ (ufo' = Null /\ StartStep))
     /\ last'.act = "animate" =>
          /\ Count(last'.ev, "spawnUfo") <= 1
          /\ Count(last'.ev, "spawnUfo") = 1 =>
               /\ ufo = Null /\ sinceUfo > nextUfoSpawnDelay
               /\ Stepped'.ufo # Null
               /\ Stepped'.ufo[1].position.x \in {0, Width * 10}
          /\ (ufo = Null /\ ufo' # Null) => Count(last'.ev, "spawnUfo") = 1
          /\ (ufo # Null /\ gameState = PLAYING) =>
               \E d \in ClampedDts :
                 LET e == IF ship # Null /\ ship[1].powerupTimeSlowTimer > 0
                          THEN (d * 3) \div 10 ELSE d
                 IN /\ Stepped'.ufo = Null <=> PastEdge(ufo[1], e)
                    /\ Stepped'.ufo # Null =>
                         Stepped'.ufo[1].position = Move(ufo[1].position, ufo[1].velocity, e)
                    /\ Count(last'.ev, "ufoLeft") = (IF PastEdge(ufo[1], e) THEN 1 ELSE 0)]_vars

\* A frame has spawned a UFO after an earlier UFO left the field on the right.
C21_SpawnedAfterLeaving ==
  /\ AfterFrame /\ Happened("spawnUfo") = 1 /\ frames = 2
  /\ Mid.ufo # Null /\ ufo # Null
  /\ \E i \in 1..Len(asteroids) : asteroids[i].size = "medium" /\ asteroids[i].velocity.x < 0
\* C22: when two commentary requests overlap, the line finally shown is the
\* response of the request issued last, in whatever order the two settle.
C22_NewestShown ==
  (Len(requests) >= 2 /\ \A i \in 1..Len(requests) : requests[i].done)
    => aiMessage = requests[Len(requests)].result.text

\* C23: generateGameCommentary never rejects: with no client, with a call
\* that throws, and with a response without text, it is fulfilled with the
\* fallback line of its context, and otherwise with the text of the response.
C23_NeverRejects ==
  \A i \in 1..Len(requests) :
    requests[i].done =>
      /\ ~requests[i].result.rejected
      /\ requests[i].result.text =
           IF ~ai \/ requests[i].response.throws \/ requests[i].response.text = NoText
           THEN getFallback(requests[i].type)
           ELSE requests[i].response.text
      /\ requests[i].result.text # NoText

C23_ThrownAndEmptyFellBack ==
  /\ ai
  /\ \E i \in 1..Len(requests) : requests[i].done /\ requests[i].response.throws
  /\ \E i \in 1..Len(requests) :
       /\ requests[i].done /\ ~requests[i].response.throws
       /\ requests[i].response.text = NoText
  /\ aiMessage.src = "fallback" /\ ~isAiLoading

SortedDesc(board) == \A i \in 1..Len(board) - 1 : board[i].score >= board[i + 1].score

\* C24: submitScore puts the new entry (the score, and the initials in
\* upper case, 1 to 3 characters) on the leaderboard; the board it stores is
\* sorted by score descending, has min(old length + 1, 10) entries, and every
\* other entry of it was on the old board.
C24_Submitted ==
  [][last'.act = "submitScore" =>
       /\ Len(highScores') = Min(Len(highScores) + 1, 10)
       /\ SortedDesc(highScores')
       /\ \E i \in 1..Len(highScores') :
            /\ highScores'[i] = [name |-> toUpperCase(initials), score |-> score]
            /\ Len(highScores'[i].name) \in 1..3
            /\ \A j \in 1..Len(highScores') :
                 j # i => \E k \in 1..Len(highScores) : highScores[k] = highScores'[j]
       /\ \A i \in 1..Len(highScores') : Len(highScores'[i].name) \in 1..3]_vars

\* A board of ten entries has taken the new entry and dropped its last one.
C24_FullBoardSubmitted ==
  /\ last.act = "submitScore" /\ gameState = HIGH_SCORES
  /\ Len(highScores) = 10 /\ SortedDesc(highScores)
  /\ \E i \in 1..9 : highScores[i] = [name |-> <<"A", "B">>, score |-> score]
  /\ highScores[10].score = 600

\* C25: loadHighScores does not fail when nothing is stored or when what is
\* stored is corrupted (an empty string, a string that is not JSON): it seeds
\* the leaderboard with the five default entries and writes them to the store.
C25_LoadSeedsDefaults ==
  (last.act = "loadHighScores" /\ last.in.stored.kind # "json")
    => /\ ~last.result.threw
       /\ highScores = DefaultScores /\ Len(highScores) = 5
       /\ last.result.store = Stringify(DefaultScores)

\* C26: a press of Space starts a game (score 0, lives 3, level 1, phase
\* LEVEL_TRANSITION) when the phase is MENU, and in every other phase it
\* leaves phase, score, lives and level as they are; the leaderboard screen is
\* left for a new game only by its NEW GAME button.
C26_SpaceStartsOnlyInMenu ==
  [][/\ (last'.act = "handleKeyDown" /\ last'.ev[1] = Ev("keyDown", "Space", 0)) =>
          IF gameState = MENU
          THEN gameState' = LEVEL_TRANSITION /\ score' = 0 /\ lives' = 3 /\ level' = 1
          ELSE UNCHANGED <<gameState, score, lives, level>>
     /\ (gameState = HIGH_SCORES /\ gameState' = LEVEL_TRANSITION) => last'.act = "startGame"
    ]_vars

\* Space was pressed on the leaderboard screen after a game, and nothing started.
C26_SpaceOnLeaderboard ==
  /\ last.act = "handleKeyDown" /\ last.ev[1] = Ev("keyDown", "Space", 0)
  /\ last.gameState = HIGH_SCORES /\ gameState = HIGH_SCORES
  /\ score > 0 /\ lives = 0 /\ "Space" \in keys

\* C27: when a frame takes the last life and ends with no asteroid and no
\* UFO, the phase after it is GAME_OVER and the level is not incremented; and
\* PLAYING is never entered with no life left (only a game start, which gives
\* three lives, leads back to it).
C27_LastLifeEndsGame ==
  [][/\ (last'.act = "animate" /\ lives = 1 /\ lives' = 0
          /\ asteroids' = <<>> /\ ufo' = Null) =>
          gameState' = GAME_OVER /\ level' = level
     /\ (gameState # PLAYING /\ gameState' = PLAYING) => lives' > 0
    ]_vars

\* The children born of the hits a sequence of events records.
RECURSIVE KidsBorn(_)
KidsBorn(evs) ==
  IF evs = <<>> THEN 0
  ELSE (IF Head(evs).t = "bulletHitAsteroid" THEN Head(evs).n ELSE 0) + KidsBorn(Tail(evs))

LiveAsteroids(seq) == Len(SelectSeq(seq, LAMBDA a : ~a.dead))

\* C28: the collisions of a frame skip what is already marked dead.  When the
\* ship dies of an asteroid, an asteroid that is not marked dead overlaps it;
\* and every hit of a bullet or a missile on an asteroid (each one scores)
\* takes one asteroid that was not marked dead: the asteroids not marked dead
\* after the frame are those before the collisions, plus the children born,
\* minus one for each hit.
C28_DeadSkipped ==
  AfterFrame =>
    /\ HappenedTo("death", "asteroid") >= 1 =>
         \E j \in 1..Len(asteroids) : ~asteroids[j].dead /\ Touches(ship[1], asteroids[j])
    /\ LiveAsteroids(asteroids) =
         LiveAsteroids(Mid.asteroids) + KidsBorn(last.ev)
           - (Happened("bulletHitAsteroid") + Happened("missileHitAsteroid"))

\* The asteroids, by their place in the array when the collisions began, that
\* were not marked dead and overlapped e.
Overlapped(e) ==
  {j \in 1..Len(Mid.asteroids) :
     /\ ~Mid.asteroids[j].dead
     /\ checkCollision(e.position, e.radius,
                       Mid.asteroids[j].position, Mid.asteroids[j].radius)}

\* The asteroid is in the array as it was, not marked dead.
Untouched(a) == ~a.dead /\ InSeq(a, asteroids)

\* The only projectile of the frame, e, took the first asteroid it overlapped
\* and no other, and left the UFO.
TookFirst(e) ==
  Overlapped(e) # {} =>
    /\ \A j \in Overlapped(e) :
         Untouched(Mid.asteroids[j]) <=> (\E k \in Overlapped(e) : k < j)
    /\ Happened("shipHitUfo") = 0 => ufo = Mid.ufo

Shots(seq) == OfOwner(seq, "ship")

\* C30: a frame fires only in PLAYING, with the ship alive, a fire key held and
\* the cooldown, after the frame's decrement, at or below 0.  A frame that
\* fires sets the cooldown to FIRE_RATE and adds exactly one bullet along the
\* ship's angle, or exactly three (the angle and 0.2 rad to either side) when
\* the multi-shot countdown is still positive; a frame that does not fire adds
\* no ship bullet and only counts the cooldown down.  When the cooldown runs out
\* in the frame that fires, every bullet the ship fired before has flown for
\* more than FIRE_RATE.
C30_FiresWhenReady ==
  [][last'.act = "animate" =>
       \E d \in ClampedDts :
         LET now == Stepped'
             s == ship[1]
             cd == IF s.cooldown > 0 THEN s.cooldown - d ELSE s.cooldown
             multi == s.powerupMultiShotTimer > 0 /\ s.powerupMultiShotTimer - d > 0
             live == gameState = PLAYING /\ ship # Null /\ ~s.dead
             ready == live /\ keys \cap {"Space", "ControlLeft"} # {} /\ cd <= 0
             flown == SelectSeq(Shots(bullets), LAMBDA b : ~b.dead /\ b.life - d > 0)
             fresh == Len(Shots(now.bullets)) - Len(flown)
             aimed == [s EXCEPT !.angle = now.ship[1].angle]
         IN IF ready
            THEN /\ fresh = IF multi THEN 3 ELSE 1
                 /\ now.ship[1].cooldown = FIRE_RATE
                 /\ \A off \in IF multi THEN {0 - 200, 0, 200} ELSE {0} :
                      MovedIn(ShipBullet(aimed, off), d, now.bullets)
                 /\ s.cooldown > 0 =>
                      \A i \in 1..Len(bullets) :
                        bullets[i].owner = "ship" => bullets[i].life - d < BULLET_LIFE - FIRE_RATE
            ELSE /\ fresh = 0
                 /\ live => now.ship[1].cooldown = cd]_vars

\* The cooldown has run out in this frame and the gun has fired again: the
\* bullet of the firing before is still in flight, more than FIRE_RATE old.
C30_FiredAgain ==
  /\ AfterFrame /\ Happened("fire") = 1
  /\ ship # Null /\ ship[1].cooldown = FIRE_RATE
  /\ Len(Shots(Mid.bullets)) = 2
  /\ \E i, j \in 1..Len(Mid.bullets) :
       /\ Mid.bullets[i].life < BULLET_LIFE - FIRE_RATE
       /\ Mid.bullets[j].life >= BULLET_LIFE - 100

\* C31: a press of KeyM launches a missile only in PLAYING, with the ship alive
\* and missile ammo above 0; a launch appends exactly one missile, from the
\* ship's nose along its angle, and takes exactly one from the ammo; no other
\* key press and no launch refused changes the missiles or the ship, no other
\* step adds a missile, and the ammo is never negative.
C31_LaunchNeedsAmmo ==
  [][/\ last'.act = "handleKeyDown" =>
          IF /\ last'.ev[1] = Ev("keyDown", "KeyM", 0)
             /\ gameState = PLAYING /\ ship # Null
             /\ ~ship[1].dead /\ ship[1].missileAmmo > 0
          THEN /\ missiles' = Append(missiles, NewMissile(ship[1]))
               /\ ship' = Ref([ship[1] EXCEPT !.missileAmmo = @ - 1])
          ELSE StartStep \/ UNCHANGED <<missiles, ship>>
     /\ Len(missiles') > Len(missiles) => last'.act = "handleKeyDown"
     /\ ship' # Null => ship'[1].missileAmmo >= 0
    ]_vars

\* The last missile has been launched.
C31_LastMissileLaunched ==
  /\ last.act = "handleKeyDown" /\ last.ev[1] = Ev("keyDown", "KeyM", 0)
  /\ Happened("fireMissile") = 1
  /\ gameState = PLAYING /\ ship # Null /\ ship[1].missileAmmo = 0
  /\ Len(missiles) = 1 /\ ~missiles[1].dead

\* The power-ups, by their place in the collection when the collisions began,
\* that overlapped the pickup circle of the ship (1.5 of its radius).
OnShip ==
  {i \in 1..Len(Mid.powerUps) :
     checkCollision(Mid.ship[1].position, (Mid.ship[1].radius * 3) \div 2,
                    Mid.powerUps[i].position, Mid.powerUps[i].radius)}
Picked(type) == {i \in OnShip : Mid.powerUps[i].type = type}

\* The countdown is the fixed duration if a power-up of its type was picked
\* up, and as the update left it otherwise.
SetOrKept(now, before, type) ==
  now = IF Picked(type) # {} THEN POWERUP_DURATION ELSE before

\* C32: in a frame in PLAYING with the ship alive, every power-up that overlaps
\* the pickup circle is marked dead and no other is touched; each pickup is
\* applied once: the countdown of its type is set to POWERUP_DURATION (10 s),
\* whatever was left of it, and each missile power-up adds exactly 1 to the
\* ammo.  No power-up meets the ship twice: the power-ups marked dead are
\* purged before the next pickup test.
C32_PickedUpOnce ==
  (AfterFrame /\ last.gameState = PLAYING) =>
    /\ \A i \in 1..Len(Mid.powerUps) : ~Mid.powerUps[i].dead
    /\ (Mid.ship # Null /\ ~Mid.ship[1].dead) =>
         /\ \A i \in 1..Len(Mid.powerUps) :
              IF i \in OnShip
              THEN powerUps[i] = [Mid.powerUps[i] EXCEPT !.dead = TRUE]
              ELSE powerUps[i] = Mid.powerUps[i]
         /\ Happened("pickup") = Cardinality(OnShip)
         /\ SetOrKept(ship[1].powerupMultiShotTimer, Mid.ship[1].powerupMultiShotTimer,
                      "MULTI_SHOT")
         /\ SetOrKept(ship[1].powerupShieldTimer, Mid.ship[1].powerupShieldTimer, "SHIELD")
         /\ SetOrKept(ship[1].powerupTimeSlowTimer, Mid.ship[1].powerupTimeSlowTimer,
                      "TIME_SLOW")
         /\ ship[1].missileAmmo = Mid.ship[1].missileAmmo + Cardinality(Picked("MISSILE"))
         /\ POWERUP_DURATION = 10000

\* A ship with half of a shield and two missiles has picked up a power-up of
\* each type.
C32_EachTypePicked ==
  /\ AfterFrame /\ last.gameState = PLAYING
  /\ Cardinality(OnShip) = 4 /\ Happened("pickup") = 4
  /\ Mid.ship[1].powerupShieldTimer \in 1..5000 /\ Mid.ship[1].missileAmmo = 2
  /\ ship[1].powerupShieldTimer = POWERUP_DURATION /\ ship[1].missileAmmo = 3
  /\ ship[1].powerupMultiShotTimer = POWERUP_DURATION
  /\ ship[1].powerupTimeSlowTimer = POWERUP_DURATION
  /\ \A i \in 1..4 : powerUps[i].dead

\* The field has a point the placement loop accepts.
HasRoom(in) ==
  \E p \in PositionDraws(in.width, in.height) : ~InExclusion(p, in.width, in.height)

Returned == last.act = "spawnAsteroids" /\ last.pc = "done"

\* What spawnAsteroids has appended when it returns: count + levelMultiplier
\* large asteroids, each outside the exclusion square; and it returns only on
\* a field that has a point outside the square.
Placed ==
  /\ Len(asteroids) = last.in.count + last.in.levelMultiplier
  /\ \A i \in 1..Len(asteroids) :
       /\ asteroids[i].size = "large" /\ ~asteroids[i].dead
       /\ ~(/\ Abs(asteroids[i].position.x - last.in.width * 5) < 1500
            /\ Abs(asteroids[i].position.y - last.in.height * 5) < 1500)

C33_PlacedOutside == Returned => (Placed /\ HasRoom(last.in))

\* On a field that has a point outside the square, every call returns.
C33_ReturnsWithRoom ==
  (last.act = "spawnAsteroids" /\ HasRoom(last.in)) ~> Returned

BulletOnAsteroid ==
  \E i \in 1..Len(bullets) : \E j \in 1..Len(asteroids) :
    /\ bullets[i].owner = "ship" /\ ~bullets[i].dead /\ ~asteroids[j].dead
    /\ checkCollision(bullets[i].position, bullets[i].radius,
                      asteroids[j].position, asteroids[j].radius)

\* C34: a point is scored and a life is lost only by a frame run while the
\* phase is Playing.  No step taken in LevelTransition or GameOver changes
\* the score or the lives.  A frame run in one of these two phases moves the
\* asteroids, the bullets, the missiles and the power-ups by its time step and
\* drops those whose life ran out, and does nothing else: no collision phase
\* is run, nothing is logged (no hit, no pick-up, no death, no level clear, no
\* game over), no timer is set, and the phase, the score, the lives, the
\* level, the ship and the UFO are what they were.
C34_OnlyWhilePlaying ==
  [][/\ (score' > score \/ lives' < lives) =>
          last'.act = "animate" /\ gameState = PLAYING
     /\ gameState \in {LEVEL_TRANSITION, GAME_OVER} => UNCHANGED <<score, lives>>
     /\ (last'.act = "animate" /\ gameState \in {LEVEL_TRANSITION, GAME_OVER}) =>
          /\ UNCHANGED <<gameState, score, lives, level, ship, ufo, timers>>
          /\ last'.mid = <<>> /\ last'.ev = <<>>
          /\ Len(bullets') <= Len(bullets)
          /\ Len(missiles') <= Len(missiles)
          /\ Len(powerUps') <= Len(powerUps)
          /\ \E d \in ClampedDts : AdvancedBy(d, d, Stepped')]_vars

\* A frame was run in GameOver with the ship's bullet moved onto an asteroid:
\* both are still there and the score is what it was.
C34_PassedThrough ==
  /\ last.act = "animate" /\ last.gameState = GAME_OVER /\ gameState = GAME_OVER
  /\ BulletOnAsteroid
  /\ score = last.score /\ lives = last.lives

====
